------------------------------- MODULE Catalogue -------------------------------
(***************************************************************************)
(* The services of the status page and their order (table                  *)
(* monitored_services), the severities and phases an operator may add      *)
(* (tables severity_levels and incident_states), and the labels of the     *)
(* sources of incidents (table source_labels).                             *)
(*                                                                         *)
(* Moving a service reads all of them and writes the orders that differ    *)
(* from what it read, in two awaits; the other operations are one          *)
(* statement on one row.                                                   *)
(***************************************************************************)
EXTENDS Naturals, FiniteSets

CONSTANTS
    Names,      \* services, numbered in the order of their names
    New,        \* those of them that Graph has not shown yet
    Groups,     \* numbered in the order of their names; the last stands for "no group"
    Checks,     \* the group that the checks page puts a service into without one
    Movers,     \* requests of /services/{name}/move
    SystemLevels, CustomLevels, \* severities and phases: seeded ones, and others
    SystemSources, OtherSources, \* sources of incidents: those with a seeded label, and others
    OldOrder,   \* the sort orders an earlier session left
    MaxEvents   \* bound: acts of operators, changes in Graph, new days, broken connections

ASSUME CatalogueAssumption ==
    /\ Names \subseteq Nat /\ Groups \subseteq Nat /\ IsFiniteSet(Names) /\ IsFiniteSet(Groups)
    /\ New \subseteq Names /\ SystemLevels \cap CustomLevels = {} /\ SystemSources \cap OtherSources = {}
    /\ OldOrder \in [Names -> Nat]
    /\ Checks \in Groups /\ MaxEvents \in Nat

VARIABLES
    svc,        \* table monitored_services
    mover,      \* the moves under way
    levels,     \* severities and phases, with whether their label was changed
    labels,     \* sources that have a label, with whether it was changed
    acts        \* number of bounded events so far

catalogue == <<svc, mover, levels, labels>>

Acts == acts < MaxEvents /\ acts' = acts + 1

Service == [known: BOOLEAN, enabled: BOOLEAN, uptime: BOOLEAN, group: Groups, order: Nat]
NoGroup == CHOOSE g \in Groups : \A h \in Groups : h <= g
Unknown == [known |-> FALSE, enabled |-> FALSE, uptime |-> TRUE, group |-> NoGroup, order |-> 0]

Resting == [at |-> "idle", name |-> 0, up |-> FALSE, seen |-> [n \in Names |-> Unknown]]

CatalogueInit ==
    /\ svc = [n \in Names |-> IF n \in New THEN Unknown
                              ELSE [Unknown EXCEPT !.known = TRUE, !.enabled = TRUE, !.order = OldOrder[n]]]
    /\ mover = [q \in Movers |-> Resting]
    /\ levels = [l \in SystemLevels |-> "seeded"]
    /\ labels = [l \in SystemSources |-> "seeded"]
    /\ acts = 0

-----------------------------------------------------------------------------
(* The order of the page.                                                  *)

\* ORDER BY group (none last), sort_order, service_name.
Before(s, a, b) ==
    \/ s[a].group < s[b].group
    \/ s[a].group = s[b].group /\ s[a].order < s[b].order
    \/ s[a].group = s[b].group /\ s[a].order = s[b].order /\ a < b

Group(s, n) == {m \in Names : s[m].known /\ s[m].group = s[n].group}
Ahead(s, n) == {m \in Group(s, n) : Before(s, m, n)}
Behind(s, n) == {m \in Group(s, n) : Before(s, n, m)}

\* The one next to n, for those on one side of it.
Nearest(s, n, side) == CHOOSE m \in side : \A o \in side : o = m \/ (Before(s, o, m) <=> Before(s, m, n))

\* Mutant: equal orders are swapped as they are.
SpreadNever(s, n, m) == s

\* If the two have the same order, the members of the group get 0, 10, 20...
Spread(s, n, m) ==
    IF s[n].order # s[m].order THEN s
    ELSE [o \in Names |-> IF o \in Group(s, n) THEN [s[o] EXCEPT !.order = 10 * Cardinality(Ahead(s, o))] ELSE s[o]]

\* move_service: the services with n moved.
Moved(s, n, up) ==
    LET side == IF up THEN Ahead(s, n) ELSE Behind(s, n)
        m == Nearest(s, n, side)
        t == Spread(s, n, m)
    IN IF side = {} THEN s ELSE [t EXCEPT ![n].order = t[m].order, ![m].order = t[n].order]

-----------------------------------------------------------------------------
\* SELECT all services.
StartMove(q, n, up) ==
    /\ Acts /\ mover[q].at = "idle" /\ svc[n].known
    /\ mover' = [mover EXCEPT ![q] = [at |-> "move", name |-> n, up |-> up, seen |-> svc]]
    /\ UNCHANGED <<svc, levels, labels>>

\* UPDATE the orders that changed.
EndMove(q) ==
    LET seen == mover[q].seen
        new == Moved(seen, mover[q].name, mover[q].up)
    IN
    /\ mover[q].at = "move"
    /\ svc' = [n \in Names |-> IF new[n].order # seen[n].order THEN [svc[n] EXCEPT !.order = new[n].order] ELSE svc[n]]
    /\ mover' = [mover EXCEPT ![q] = Resting]
    /\ UNCHANGED <<levels, labels, acts>>

\* ensure_service_known, for services found in Graph.
Known(s, found) == [n \in Names |-> [s[n] EXCEPT !.known = @ \/ n \in found]]

\* set_service_group.
Grouped(s, n, g) == [Known(s, {n}) EXCEPT ![n].group = g]

SetGroup(n, g) ==
    /\ Acts /\ svc[n].known /\ svc[n].group # g
    /\ svc' = Grouped(svc, n, g)
    /\ UNCHANGED <<mover, levels, labels>>

\* The page of the checks, where no name means "Checks".
SetCheckGroup(n, g) ==
    /\ Acts /\ svc[n].known
    /\ svc' = [svc EXCEPT ![n].group = IF g = NoGroup THEN Checks ELSE g]
    /\ UNCHANGED <<mover, levels, labels>>

ToggleService(n) ==
    /\ Acts
    /\ svc' = [Known(svc, {n}) EXCEPT ![n].enabled = ~@]
    /\ UNCHANGED <<mover, levels, labels>>

\* set_show_uptime_percentage.
Displayed(s, n) == [Known(s, {n}) EXCEPT ![n].uptime = ~@]

ToggleUptime(n) ==
    /\ Acts
    /\ svc' = Displayed(svc, n)
    /\ UNCHANGED <<mover, levels, labels>>

CreateLevel(l) ==
    /\ Acts /\ l \notin DOMAIN levels
    /\ levels' = [k \in DOMAIN levels \cup {l} |-> IF k = l THEN "added" ELSE levels[k]]
    /\ UNCHANGED <<svc, mover, labels>>

\* Mutant: the check of is_system forgotten.
MayChangeAny(l) == l \in DOMAIN levels

MayChange(l) == l \in DOMAIN levels /\ l \notin SystemLevels

UpdateLevel(l) ==
    /\ Acts /\ MayChange(l)
    /\ levels' = [levels EXCEPT ![l] = "changed"]
    /\ UNCHANGED <<svc, mover, labels>>

DeleteLevel(l) ==
    /\ Acts /\ MayChange(l)
    /\ levels' = [k \in DOMAIN levels \ {l} |-> levels[k]]
    /\ UNCHANGED <<svc, mover, labels>>

\* upsert_source_label, on a seeded label as on any other.
Relabelled(l) ==
    [k \in DOMAIN labels \cup {l} |->
        IF k # l THEN labels[k] ELSE IF l \in DOMAIN labels THEN "changed" ELSE "added"]

SaveLabel(l) ==
    /\ Acts
    /\ labels' = Relabelled(l)
    /\ UNCHANGED <<svc, mover, levels>>

\* The request deletes the label, reports so, and ends without a COMMIT.
DeleteLabel(l) ==
    /\ Acts /\ l \in DOMAIN labels
    /\ UNCHANGED catalogue

CatalogueNext ==
    \/ \E q \in Movers, n \in Names, up \in BOOLEAN : StartMove(q, n, up)
    \/ \E q \in Movers : EndMove(q)
    \/ \E n \in Names, g \in Groups : SetGroup(n, g) \/ SetCheckGroup(n, g)
    \/ \E n \in Names : ToggleService(n) \/ ToggleUptime(n)
    \/ \E l \in SystemSources \cup OtherSources : SaveLabel(l) \/ DeleteLabel(l)
    \/ \E l \in SystemLevels \cup CustomLevels : CreateLevel(l) \/ UpdateLevel(l) \/ DeleteLevel(l)

-----------------------------------------------------------------------------
\* The seeded levels stay as they are, and the seeded labels, which may be
\* changed, stay; a service on the page is in the table.
CatalogueTypeOK ==
    /\ svc \in [Names -> Service]
    /\ \A n \in Names : svc[n].enabled => svc[n].known
    /\ mover \in [Movers -> [at: {"idle", "move"}, name: Names \cup {0}, up: BOOLEAN, seen: [Names -> Service]]]
    /\ DOMAIN levels \subseteq SystemLevels \cup CustomLevels
    /\ \A l \in SystemLevels : l \in DOMAIN levels /\ levels[l] = "seeded"
    /\ SystemSources \subseteq DOMAIN labels /\ DOMAIN labels \subseteq SystemSources \cup OtherSources
    /\ acts \in 0..MaxEvents

\* A third of their group shares the number that n or m takes over from the other.
TakesOver(s, n, m, a, b) ==
    /\ s[n].order # s[m].order /\ s[b].group = s[n].group /\ b \notin {n, m}
    /\ \/ a = n /\ s[b].order = s[m].order
       \/ a = m /\ s[b].order = s[n].order

\* Whether a comes before b when n and m have passed each other.
Placed(s, n, m, a, b) ==
    CASE {a, b} = {n, m} -> Before(s, b, a)
      [] TakesOver(s, n, m, a, b) \/ TakesOver(s, n, m, b, a) -> a < b
      [] OTHER -> Before(s, a, b)

\* A move that nothing overlapped takes the service past its neighbour, from any
\* numbers in sort_order, and nobody else changes places: except that the names
\* decide between one of the two and a third that shares the number it takes over
\* ("Falls back to ... if multiple services share the same sort_order", which
\* move_service does only if the two themselves do).
MovesOnePlace ==
    [][\A q \in Movers :
        LET s == mover[q].seen n == mover[q].name
            side == IF mover[q].up THEN Ahead(s, n) ELSE Behind(s, n)
            m == Nearest(s, n, side)
        IN EndMove(q) /\ s = svc =>
            \A a, b \in Names : a # b /\ svc[a].known /\ svc[b].known =>
                (Before(svc', a, b) <=> IF side = {} THEN Before(s, a, b) ELSE Placed(s, n, m, a, b))
       ]_<<catalogue, acts>>
=============================================================================
