------------------------------ MODULE LiveTable ------------------------------
(***************************************************************************)
(* The three tables that follow a list of the database:                    *)
(* MembersTableViewController (the members of a club),                     *)
(* ClubTableViewController (the clubs of a user) and                       *)
(* FriendTableViewController (whom a user follows).  They are one program: *)
(* an entry that is added is looked up, then its picture is downloaded,    *)
(* and only then its row is appended; an entry that is removed loses its   *)
(* rows at once, by the indices of a copy of the rows.                     *)
(*                                                                         *)
(* The SDK raises one event per change of the list as this device sees it  *)
(* (external); the change and the closure it runs are one step here.       *)
(***************************************************************************)
EXTENDS Integers, Sequences, FiniteSets, SequencesExt

CONSTANTS Key,        \* of the entries: users, or clubs
          MaxLoads,   \* bound on the lookups running for one entry, for TLC
          MaxRows     \* bound on the rows, for TLC

ASSUME MaxLoadsAssumption == MaxLoads \in Nat
ASSUME MaxRowsAssumption == MaxRows \in Nat

VARIABLES list,        \* the entries, as this device sees them
          named,       \* entries whose node has the name fields (`clubs` have a default)
          table,       \* the keys of the table's rows
          naming,      \* [Key -> Nat], lookups of the entry's node that are running
          picturing,   \* [Key -> Nat], downloads of the entry's picture that are running
          unpictured,  \* history: entries of the list whose latest download failed
          hasty,       \* history: entries removed while they were loading
          halted       \* what stopped the app: "none", "name" or "index"

tableVars == <<list, named, table, naming, picturing, unpictured, hasty, halted>>

-----------------------------------------------------------------------------
Loads(k) == naming[k] + picturing[k]
RowsOf(k) == {i \in 1..Len(table) : table[i] = k}

TableInit ==
    /\ list = {}
    /\ named \in SUBSET Key
    /\ table = <<>>
    /\ naming = [k \in Key |-> 0]
    /\ picturing = [k \in Key |-> 0]
    /\ unpictured = {}
    /\ hasty = {}
    /\ halted = "none"

(* childAdded: the entry's node is read.                                   *)
Added(k) ==
    /\ halted = "none"
    /\ k \notin list
    /\ Loads(k) < MaxLoads
    /\ list' = list \cup {k}
    /\ naming' = [naming EXCEPT ![k] = @ + 1]
    /\ unpictured' = unpictured \ {k}
    /\ UNCHANGED <<named, table, picturing, hasty, halted>>

(* Mutant: the lookup ends and no download starts.                         *)
NameReply_Skips(k) ==
    /\ halted = "none"
    /\ naming[k] > 0
    /\ naming' = [naming EXCEPT ![k] = @ - 1]
    /\ UNCHANGED <<list, named, table, picturing, unpictured, hasty, halted>>

(* The node arrives: firstName! and lastName! need the fields; with them   *)
(* the download starts.                                                    *)
NameReply(k) ==
    /\ halted = "none"
    /\ naming[k] > 0
    /\ naming' = [naming EXCEPT ![k] = @ - 1]
    /\ IF k \in named THEN picturing' = [picturing EXCEPT ![k] = @ + 1] /\ UNCHANGED halted
                      ELSE halted' = "name" /\ UNCHANGED picturing
    /\ UNCHANGED <<list, named, table, unpictured, hasty>>

(* Mutant: the closure runs without a download.                            *)
DownloadReply_Observes(k) ==
    /\ halted = "none"
    /\ Len(table) < MaxRows
    /\ table' = Append(table, k)
    /\ picturing' = [picturing EXCEPT ![k] = @ - 1]
    /\ UNCHANGED <<list, named, naming, unpictured, hasty, halted>>

(* The picture arrives and with it the row.                                *)
DownloadReply(k) ==
    /\ halted = "none"
    /\ picturing[k] > 0
    /\ Len(table) < MaxRows
    /\ table' = Append(table, k)
    /\ picturing' = [picturing EXCEPT ![k] = @ - 1]
    /\ UNCHANGED <<list, named, naming, unpictured, hasty, halted>>

(* No picture in the storage, or it is too large: no row.                  *)
DownloadFails(k) ==
    /\ halted = "none"
    /\ picturing[k] > 0
    /\ picturing' = [picturing EXCEPT ![k] = @ - 1]
    /\ unpictured' = unpictured \cup ({k} \cap list)
    /\ UNCHANGED <<list, named, table, naming, hasty, halted>>

(* One turn of `for (index, member) in members.enumerated()`, which walks  *)
(* a copy s of the rows while remove(at: index) shortens the rows.         *)
Turn(live, s, k, i) ==
    IF s[i] # k \/ live.halted # "none" THEN live
    ELSE IF i > Len(live.table) THEN [table |-> live.table, halted |-> "index"]
    ELSE [table |-> RemoveAt(live.table, i), halted |-> "none"]

Walk(s, k) ==
    LET walk[i \in 0..Len(s)] ==
            IF i = 0 THEN [table |-> s, halted |-> "none"] ELSE Turn(walk[i - 1], s, k, i)
    IN  walk

Enumerated(s, k) == Walk(s, k)[Len(s)]

(* Mutant: the rows stay.                                                  *)
Removed_KeepsRow(k) ==
    /\ halted = "none"
    /\ k \in list
    /\ list' = list \ {k}
    /\ unpictured' = unpictured \ {k}
    /\ hasty' = IF Loads(k) > 0 THEN hasty \cup {k} ELSE hasty
    /\ UNCHANGED <<named, table, naming, picturing, halted>>

(* childRemoved.                                                           *)
Removed(k) ==
    /\ halted = "none"
    /\ k \in list
    /\ list' = list \ {k}
    /\ table' = Enumerated(table, k).table
    /\ halted' = Enumerated(table, k).halted
    /\ unpictured' = unpictured \ {k}
    /\ hasty' = IF Loads(k) > 0 THEN hasty \cup {k} ELSE hasty
    /\ UNCHANGED <<named, naming, picturing>>

(* The user behind an entry completes the sign-up form.                    *)
Named(k) ==
    /\ k \notin named
    /\ named' = named \cup {k}
    /\ UNCHANGED <<list, table, naming, picturing, unpictured, hasty, halted>>

TableNext ==
    \/ \E k \in Key : \/ Added(k) \/ NameReply(k) \/ DownloadReply(k) \/ DownloadFails(k)
                      \/ Removed(k) \/ Named(k)

TableSpec == TableInit /\ [][TableNext]_tableVars

(* Reads and downloads are answered; nothing has to join or leave.         *)
TableFairSpec ==
    /\ TableSpec
    /\ \A k \in Key : /\ WF_tableVars(NameReply(k))
                      /\ WF_tableVars(DownloadReply(k) \/ DownloadFails(k))

-----------------------------------------------------------------------------
(* Variables stay within their type.                                       *)
TableTypeOK ==
    /\ list \subseteq Key /\ named \subseteq Key
    /\ table \in Seq(Key)
    /\ naming \in [Key -> Nat] /\ picturing \in [Key -> Nat]
    /\ unpictured \subseteq list /\ hasty \subseteq Key
    /\ halted \in {"none", "name", "index"}

(* The table is the list: as long as no entry left while it was loading,   *)
(* every entry has exactly one row or one load under way, unless its       *)
(* picture could not be had, and nothing else has either, in whatever      *)
(* order entries come, go, come back and load; and walking a copy while    *)
(* shortening the rows stays within them.                                  *)
TableIsList ==
    hasty = {} =>
        /\ halted # "index"
        /\ halted = "none" => \A k \in Key :
               Cardinality(RowsOf(k)) + Loads(k) = IF k \in list \ unpictured THEN 1 ELSE 0

(* Every entry gets its row, or leaves, or its picture cannot be had.      *)
EntryListed ==
    \A k \in Key :
        k \in list ~> (RowsOf(k) # {} \/ k \notin list \/ k \in unpictured \/ hasty # {} \/ halted # "none")
=============================================================================
