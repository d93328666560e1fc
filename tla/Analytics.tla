------------------------------ MODULE Analytics ------------------------------
(***************************************************************************)
(* AnalyticsViewController.swift: the charts of a club's members, opened   *)
(* by its founder, whose own button never offers to leave the club.  The   *)
(* members are observed, so every change of the list comes as a snapshot;  *)
(* each snapshot reads every member's profile and, when a dispatch group   *)
(* says that all have arrived, draws the charts from counters that are     *)
(* shared by all snapshots and start at zero only once.                    *)
(*                                                                         *)
(* The five dictionaries count the same profiles by five fields; one field *)
(* stands for them.                                                        *)
(***************************************************************************)
EXTENDS Integers, FiniteSets

CONSTANTS Person,       \* members and former members of the club
          Founder,
          Profiled,     \* users whose profile has its fields: who leaves the
                        \* sign-up form unfinished can still join a club
          Dorm,         \* values of the counted field
          DormOf,       \* [Person -> Dorm]
          MaxSnapshots  \* bound on the snapshots, for TLC

ASSUME PersonAssumption == IsFiniteSet(Person)
ASSUME DormAssumption == DormOf \in [Person -> Dorm]
ASSUME ProfiledAssumption == Founder \in Person /\ Profiled \subseteq Person
ASSUME MaxSnapshotsAssumption == MaxSnapshots \in Nat \ {0}

VARIABLES members,    \* the club's members, as this device sees them
          groups,     \* a dispatch group per snapshot
          snapshots,  \* how many snapshots have come
          dorms,      \* the counters
          chart,      \* what the chart shows
          crashed     \* an as! met a profile without its fields

analyticsVars == <<members, groups, snapshots, dorms, chart, crashed>>

Group == [waits : SUBSET Person,    \* profiles still to come
          of : SUBSET Person,       \* history: the snapshot
          phase : {"none", "reading", "drawn"}]

NoCount == [x \in Dorm |-> 0]
Undisturbed == ~crashed

(* How a set of users distributes over the field.                          *)
CountOf(S) == [x \in Dorm |-> Cardinality({u \in S : DormOf[u] = x})]

-----------------------------------------------------------------------------
AnalyticsInit ==
    /\ members \in {S \in SUBSET Person : Founder \in S}
    /\ groups = [g \in 1..MaxSnapshots |-> [waits |-> {}, of |-> {}, phase |-> "none"]]
    /\ snapshots = 0
    /\ dorms = NoCount /\ chart = NoCount
    /\ crashed = FALSE

(* The value closure: enter() and a read for every member.                 *)
Read(S) ==
    /\ snapshots' = snapshots + 1
    /\ groups' = [groups EXCEPT ![snapshots + 1] =
                    [waits |-> S, of |-> S, phase |-> "reading"]]

(* The members the screen opens with arrive.                               *)
FirstSnapshot ==
    /\ Undisturbed
    /\ snapshots = 0
    /\ Read(members)
    /\ UNCHANGED <<members, dorms, chart, crashed>>

(* Somebody joins or leaves while the charts are open.                     *)
MembersChange(u) ==
    /\ Undisturbed
    /\ u # Founder
    /\ snapshots \in 1..(MaxSnapshots - 1)
    /\ members' = IF u \in members THEN members \ {u} ELSE members \cup {u}
    /\ Read(members')
    /\ UNCHANGED <<dorms, chart, crashed>>

(* Mutants: leave() is forgotten; a profile is counted down.               *)
ProfileReply_NoLeave(g, u) ==
    /\ Undisturbed
    /\ u \in groups[g].waits
    /\ dorms' = [dorms EXCEPT ![DormOf[u]] = 1]
    /\ UNCHANGED <<members, groups, snapshots, chart, crashed>>
ProfileReply_Underflows(g, u) ==
    /\ Undisturbed
    /\ u \in groups[g].waits
    /\ groups' = [groups EXCEPT ![g].waits = @ \ {u}]
    /\ dorms' = [dorms EXCEPT ![DormOf[u]] = @ - 1]
    /\ UNCHANGED <<members, snapshots, chart, crashed>>

(* A member's profile arrives and is counted; then leave().                *)
ProfileReply(g, u) ==
    /\ Undisturbed
    /\ u \in groups[g].waits
    /\ IF u \in Profiled
       THEN /\ groups' = [groups EXCEPT ![g].waits = @ \ {u}]
            /\ dorms' = [dorms EXCEPT ![DormOf[u]] = @ + 1]
            /\ UNCHANGED crashed
       ELSE crashed' = TRUE /\ UNCHANGED <<groups, dorms>>
    /\ UNCHANGED <<members, snapshots, chart>>

(* Mutant: the charts are drawn without waiting for the group.             *)
CreateCharts_Hasty(g) ==
    /\ Undisturbed
    /\ groups[g].phase = "reading"
    /\ groups' = [groups EXCEPT ![g].phase = "drawn"]
    /\ chart' = dorms
    /\ UNCHANGED <<members, snapshots, dorms, crashed>>

(* notify: the main queue runs createCharts some time after the last       *)
(* leave(); the charts show the counters of that moment.                   *)
CreateCharts(g) ==
    /\ Undisturbed
    /\ groups[g].phase = "reading" /\ groups[g].waits = {}
    /\ groups' = [groups EXCEPT ![g].phase = "drawn"]
    /\ chart' = dorms
    /\ UNCHANGED <<members, snapshots, dorms, crashed>>

AnalyticsNext ==
    \/ FirstSnapshot
    \/ \E u \in Person : MembersChange(u)
    \/ \E g \in 1..MaxSnapshots : CreateCharts(g) \/ \E u \in Person : ProfileReply(g, u)

AnalyticsSpec == AnalyticsInit /\ [][AnalyticsNext]_analyticsVars

(* Reads are answered and the main queue is served.                        *)
AnalyticsFairSpec ==
    /\ AnalyticsSpec
    /\ \A g \in 1..MaxSnapshots :
          /\ WF_analyticsVars(CreateCharts(g))
          /\ \A u \in Person : WF_analyticsVars(ProfileReply(g, u))

-----------------------------------------------------------------------------
(* Variables stay within their type.                                       *)
AnalyticsTypeOK ==
    /\ members \subseteq Person
    /\ groups \in [1..MaxSnapshots -> Group]
    /\ snapshots \in 0..MaxSnapshots
    /\ dorms \in [Dorm -> Nat] /\ chart \in [Dorm -> Nat]
    /\ crashed \in BOOLEAN

(* A chart lacks nobody: it counts every member of every snapshot that has *)
(* been drawn, however the reads of several snapshots interleave; and      *)
(* while there is only one snapshot it is exactly the club.                *)
NobodyUncounted ==
    /\ \A g \in 1..MaxSnapshots : groups[g].phase = "drawn" =>
           \A x \in Dorm : chart[x] >= CountOf(groups[g].of)[x]
    /\ snapshots = 1 /\ groups[1].phase = "drawn" => chart = CountOf(members)

(* Every snapshot is drawn in the end, unless the app dies of a profile.   *)
SnapshotDrawn ==
    \A g \in 1..MaxSnapshots :
        groups[g].phase = "reading" ~> groups[g].phase = "drawn" \/ crashed
=============================================================================
