-------------------------------- MODULE Search --------------------------------
(***************************************************************************)
(* SearchViewController.swift: one table for the results of two kinds of   *)
(* search.  A search clears both result lists and asks the database; every *)
(* match is appended when its picture has arrived.  Which list the table   *)
(* counts is the scope button's choice at that moment; which list a tapped *)
(* row indexes is lookingAtClubs, the kind of the latest picture; and the  *)
(* scope button has no handler that would reload the table.                *)
(***************************************************************************)
EXTENDS Integers, Sequences, FiniteSets, SequencesExt

CONSTANTS Match,        \* what a search can find: [kind : Kind, key : keys]
          Me,           \* the signed-in user, left out of the results
          Bare,         \* matches whose node has no photo_url: no picture has been
                        \* uploaded, or not yet
          MaxSearches   \* bound on the searches, for TLC

Kind == {"clubs", "people"}

ASSUME MatchAssumption == \A m \in Match : m.kind \in Kind
ASSUME BareAssumption == Bare \subseteq Match
ASSUME MaxSearchesAssumption == MaxSearches \in Nat

VARIABLES scope,       \* SearchBar.selectedScopeButtonIndex
          looking,     \* lookingAtClubs, as the kind it stands for
          results,     \* [Kind -> Seq(Row)]: the lists `clubs` and `people`
          asked,       \* searches whose answer is outstanding
          loading,     \* rows whose picture is being downloaded
          shown,       \* what the rows on the screen show
          count,       \* rows the table view has been told of
          searches,    \* how many times Search was clicked; names the latest one
          matched,     \* history: what the latest search has found
          missed,      \* history: ... whose picture could not be had
          flipped,     \* history: the scope changed under rows or answers
          fault        \* what stopped the app: "none"; "index", UIKit's consistency check or an
                       \* index out of range; "photo", a photo_url that is not there

searchVars == <<scope, looking, results, asked, loading, shown, count, searches, matched, missed,
                flipped, fault>>

Row == [match : Match, search : 1..MaxSearches]
Outstanding == asked # {} \/ loading # {}
Running == fault = "none"

-----------------------------------------------------------------------------
SearchInit ==
    /\ scope = "clubs" /\ looking = "clubs"
    /\ results = [k \in Kind |-> <<>>]
    /\ asked = {} /\ loading = {}
    /\ shown = <<>> /\ count = 0
    /\ searches = 0 /\ matched = {} /\ missed = {}
    /\ flipped = FALSE /\ fault = "none"

(* searchBarSearchButtonClicked with a text; an empty one changes nothing. *)
SearchClicked ==
    /\ Running
    /\ searches < MaxSearches
    /\ searches' = searches + 1
    /\ results' = [k \in Kind |-> <<>>]
    /\ shown' = <<>> /\ count' = 0
    /\ matched' = {} /\ missed' = {}
    /\ asked' = asked \cup {[kind |-> scope, search |-> searches + 1]}
    /\ flipped' = (flipped /\ Outstanding)
    /\ UNCHANGED <<scope, looking, loading, fault>>

Found(q) == {[match |-> m, search |-> q.search] : m \in {n \in Match : n.kind = q.kind}}

(* Mutant: the lists are cleared when the answer comes.                    *)
Answer_Clears(q) ==
    /\ Running
    /\ q \in asked
    /\ asked' = asked \ {q}
    /\ results' = [k \in Kind |-> <<>>]
    /\ shown' = <<>> /\ count' = 0
    /\ \E found \in SUBSET Found(q) :
          /\ loading' = loading \cup found
          /\ matched' = IF q.search = searches THEN found ELSE matched
    /\ UNCHANGED <<scope, looking, searches, missed, flipped, fault>>

(* The matches of search q arrive, any of those of its kind; the picture   *)
(* of every one is asked for, at its photo_url!.                           *)
Answer(q) ==
    /\ Running
    /\ q \in asked
    /\ asked' = asked \ {q}
    /\ \E found \in SUBSET Found(q) :
          /\ loading' = loading \cup found
          /\ matched' = IF q.search = searches THEN found ELSE matched
          /\ fault' = IF \E r \in found : r.match \in Bare THEN "photo" ELSE "none"
    /\ UNCHANGED <<scope, looking, results, shown, count, searches, missed, flipped>>

(* insertRows at position i of the table, whose check compares the list it *)
(* counts now with what it was told before.                                *)
Insert(list, i) ==
    IF Len(list) = count + 1 /\ i <= count + 1
    THEN /\ shown' = InsertAt(shown, i, list[i].match)
         /\ count' = count + 1
         /\ UNCHANGED fault
    ELSE fault' = "index" /\ UNCHANGED <<shown, count>>

(* Mutants: lookingAtClubs is not set; the rows are counted anew.          *)
ImageReply_KeepsKind(r) ==
    /\ Running
    /\ r \in loading
    /\ loading' = loading \ {r}
    /\ IF r.match.key = Me
       THEN UNCHANGED <<results, shown, count, fault>>
       ELSE /\ results' = [results EXCEPT ![r.match.kind] = Append(@, r)]
            /\ Insert(results'[scope], Len(results'[r.match.kind]))
    /\ UNCHANGED <<scope, looking, asked, searches, matched, missed, flipped>>
ImageReply_Recounts(r) ==
    /\ Running
    /\ r \in loading
    /\ loading' = loading \ {r}
    /\ looking' = r.match.kind
    /\ results' = [results EXCEPT ![r.match.kind] = Append(@, r)]
    /\ count' = Len(results'[scope])
    /\ UNCHANGED <<scope, asked, shown, searches, matched, missed, flipped, fault>>

(* A picture arrives: its row is appended to the list of its kind and      *)
(* inserted at the end of that list.                                       *)
ImageReply(r) ==
    /\ Running
    /\ r \in loading
    /\ loading' = loading \ {r}
    /\ looking' = r.match.kind
    /\ IF r.match.key = Me
       THEN UNCHANGED <<results, shown, count, fault>>
       ELSE /\ results' = [results EXCEPT ![r.match.kind] = Append(@, r)]
            /\ Insert(results'[scope], Len(results'[r.match.kind]))
    /\ UNCHANGED <<scope, asked, searches, matched, missed, flipped>>

ImageFails(r) ==
    /\ Running
    /\ r \in loading
    /\ loading' = loading \ {r}
    /\ missed' = missed \cup {r}
    /\ UNCHANGED <<scope, looking, results, asked, shown, count, searches, matched, flipped, fault>>

(* The scope button: nothing but the button's index changes.               *)
ScopeChange(k) ==
    /\ Running
    /\ k # scope
    /\ scope' = k
    /\ flipped' = (flipped \/ Outstanding \/ count > 0)
    /\ UNCHANGED <<looking, results, asked, loading, shown, count, searches, matched, missed, fault>>

(* A row scrolls back into view and is filled from the scope's list.       *)
Scroll(i) ==
    /\ Running
    /\ i \in 1..count
    /\ IF i \in 1..Len(results[scope])
       THEN shown' = [shown EXCEPT ![i] = results[scope][i].match] /\ UNCHANGED fault
       ELSE fault' = "index" /\ UNCHANGED shown
    /\ UNCHANGED <<scope, looking, results, asked, loading, count, searches, matched, missed, flipped>>

(* A row is tapped: its index into the list of the kind looked at last     *)
(* names the screen that opens; the results stay.                          *)
Tap(i) ==
    /\ Running
    /\ i \in 1..count
    /\ fault' = IF i \in 1..Len(results[looking]) THEN "none" ELSE "index"
    /\ UNCHANGED <<scope, looking, results, asked, loading, shown, count, searches, matched, missed, flipped>>

SearchNext ==
    \/ SearchClicked
    \/ \E q \in asked : Answer(q)
    \/ \E r \in loading : ImageReply(r) \/ ImageFails(r)
    \/ \E k \in Kind : ScopeChange(k)
    \/ \E i \in 1..count : Scroll(i) \/ Tap(i)

SearchSpec == SearchInit /\ [][SearchNext]_searchVars

-----------------------------------------------------------------------------
(* Variables stay within their type.                                       *)
SearchTypeOK ==
    /\ scope \in Kind /\ looking \in Kind
    /\ results \in [Kind -> Seq(Row)]
    /\ asked \subseteq [kind : Kind, search : 1..MaxSearches]
    /\ loading \cup matched \cup missed \subseteq Row
    /\ shown \in Seq(Match) /\ count = Len(shown)
    /\ searches \in 0..MaxSearches
    /\ flipped \in BOOLEAN /\ fault \in {"none", "index", "photo"}

(* While the scope stays put under rows and answers, overlapping searches  *)
(* never upset the table: a row opens what it shows, the table counts what *)
(* the list holds, and no index runs out.                                  *)
RowOpensWhatItShows ==
    ~flipped =>
        /\ fault # "index"
        /\ count = Len(results[scope])
        /\ \A i \in 1..count : i \in 1..Len(results[looking]) /\ results[looking][i].match = shown[i]

(* The latest search is complete and leaves the user himself out: each of  *)
(* its matches has one row once its picture has arrived, whatever earlier  *)
(* searches still add.                                                     *)
LatestComplete ==
    /\ \A r \in matched \ (missed \cup loading) : r.match.key # Me =>
          Cardinality({i \in 1..Len(results[r.match.kind]) : results[r.match.kind][i] = r}) = 1
    /\ \A k \in Kind : \A i \in 1..Len(results[k]) : results[k][i].match.key # Me
=============================================================================
