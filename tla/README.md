# ClubHub: a verification development

ClubHub is an iOS application in Swift over a Firebase Realtime Database:
students sign up, follow each other, found and join clubs, scan a code to check
in to a club's event and read a feed of the check-ins of those they follow.
There is no code of the project on a server. Every rule that keeps the data
consistent is the order in which a view controller issues its writes and what
it does with answers that come late, twice, out of order or not at all. That is
what these TLA+ modules model, TLC checks on small instances and TLAPS proves
for all instances.

File names without a path are files of `src/ClubHub/ClubHub/`.

## 1. Inventory

### The database (external)

One tree of JSON values on the server. Every device keeps, in memory, the queue
of writes it has issued and the server has not acknowledged. A device reads its
own queue over the server's tree, so a write is visible to its own device at
once. Writes are sent in order; a connection that comes back sends the whole
queue again; a killed app forgets it, because nothing in the app turns
persistence on.

The tree as the app uses it:

| node | leaves |
|---|---|
| `users/u` | the fields of the sign-up form, `photo_url`, and the lists `clubs`, `admin_clubs`, `events`, `following`, `followers` |
| `clubs/c` | name, description, `photo_url`, and the lists `admins`, `members` |
| `clubs/c/events/e` | the fields of the event and the list `members` |

An entry of `users/u/events` is `"c|e"`; the modules take that pair as the
event's key and give events a root of their own.

Every relation is kept twice: a club in its member's `clubs` and the member in
the club's `members`; the followed user in `following` and the follower in
`followers`; the event in `users/u/events` and the attendee in
the event's `members`.

### Components

| component | state | operations | with whom | what is hard | what makes it correct |
|---|---|---|---|---|---|
| two-sided lists | the two halves of every relation, the queues in between | join, leave, follow, unfollow, check in: two writes each | written by the club and profile screens, read by every table | the two writes are independent; kill, drop, resend; two phones of one account | the halves agree and hold the user's last choice |
| club screen (`ClubViewController`) | `ClubKey`, `ClubEventKey`, `isAdmin`, `isMember`, the button | appear, answers of two nested reads, button, Confirm | opened by tables, search and scanner; writes the lists | answers of several appearances mix with taps and with other screens of the phone | the button does what it says and says what is true |
| profile screen (`ProfileViewController`) | `UserID`, `isFollowing`, the button, the name shown | appear, two answers, the auth listener, button | opened by tables and search | the auth listener replaces `UserID` after the opener set it | the same, for Follow and Unfollow |
| login and launch (`LoginViewController`, `AppDelegate`) | the signed-in user, the sign-ins under way, the alert | providers, Log In, Create Account, verification, launch, Sign Out | leads to the form or to the tabs | answers that are refused, lost, or overtaken by those of other sign-ins; quitting halfway | the tabs have a user, and he has a profile |
| sign-up form (`CompleteSignupViewController`) | `self.user`, the running uploads | submit, upload ends | opened by login and by Edit Profile | overwrites the node that holds the user's half of every link; uploads overlap; the account changes under it | a node is its user's own, a stored picture is listed |
| founding (`CreateNewClubViewController`, `YourClubsViewController`) | `ClubKey`, uploads; the list of own clubs | create, upload ends; list, answer | writes `clubs` and `admin_clubs`, the list reads them by force; others join | two writes and an upload, cut anywhere or sent again; one form founds twice | a listed club is whole, has its own picture and keeps its members |
| creating an event (`CreateClubEventViewController`, `QRCodeViewController`) | the form | the event's write, the code to scan | the code leads to the club screen on another phone | the code is there before the node is | an event that is listed is whole |
| scanner (`CameraViewController`) | `segued`, the codes noted | a code is recognised | opens the club screen | it goes on scanning behind the screen it opened | one attends what one was prompted for |
| lists of events (`EventsTable-`, `EventViewController`) | rows | childAdded, the look-up | read a club's events and one's own | a check-in makes a node before its fields are there | as for creating |
| tables (`MembersTable-`, `ClubTable-`, `FriendTableViewController`) | rows, loads under way | childAdded, two answers, childRemoved | follow one list of the database | an entry leaves, returns or loads in any order | one row per entry, none for anything else |
| search (`SearchViewController`) | `clubs`, `people`, `lookingAtClubs`, the scope | search, answers, pictures, scope, scroll, tap | opens club and profile screens | answers of earlier searches; three flags that say which list the table is | a row opens what it shows, the latest search is complete |
| analytics (`AnalyticsViewController`) | counters, a dispatch group per snapshot | snapshot, profile answers, notify | opened by a founder's club screen | snapshots overlap and share the counters | nobody is left out; every snapshot is drawn |
| home feed (`HomeViewController`) | rows, the names in them, observers | childAdded, first value, changes, two answers | reads lists the check-in writes | every change looks all events up again; observers are never removed | each check-in once, none missed |
| activity list (`ActivityTableViewController`) | rows | childAdded, answers | | in no scene of the storyboard | |

`Pods/` is vendored; `YourClubs.swift` is empty and `e.swift` an earlier draft of
the search screen; no other source refers to either.

## 2. Modules

    Database ─┬─ Links ─┬─ ClubView ───── ClubViewProofs
              │         ├─ ProfileView ── ProfileViewProofs
              │         ├─ Session ────── SessionProofs
              │         ├─ CheckIn ────── CheckInProofs
              │         ├─ LinksProofs     (used by the proofs of the screens)
              │         └─ (LinkPromise)   (the abstract specification)
              ├─ Founding ─────────────── FoundingProofs
              └─ DatabaseProofs            (used by FoundingProofs, CheckInProofs
                                            and SessionProofs)
    Feed, Search, Analytics, LiveTable ── ScreenProofs

`MCX` gives module `X` its values for TLC; the configurations are named after
the modules or after the question. Mutants (operators named `X_Y` before `X`)
are plausible mistakes in `X`; nothing refers to them. They document what each
property would catch.

**Database** is the external store. A write is a record of the leaves its
location covers and those it fills, so that `updateChildValues`, `removeValue`
and `setValue` are three values of one kind. What a leaf holds is left out
because the app's lists hold only `true`; for a `photo_url` the leaf's key names
the picture it points at.

**Links** is the promise of the two-sided lists, whichever screen taps. `Attach`
is *Join Club* (`ClubViewController` 225), *Follow* (`ProfileViewController`
182) and *Confirm* (`ClubViewController` 56), `Detach` the two that can be taken
back; `AttachWrites` keeps the order of the code, which differs for a check-in.
The history variable `wanted` holds the links the user last asked for. `torn`
holds the links the code gives up on: those a kill cut between two writes and
those a second phone of the same account wrote while the first still had writes
under way. A later tap without either heals the link, so `torn` is not sticky.

**LinkPromise** is what the lists promise to a user who knows nothing of queues,
halves and phones: a link is on, off, changing or torn. A tap makes it change; a
change ends in what was asked for; a link at rest never flips by itself. Links
implements it (`KeepsPromise`, proved): a link is *changing* while a device still
has writes on it and otherwise whatever both halves say, so a link that stays
half written, or a half that flips with nothing under way, would have no
counterpart.

**ClubView** is `ClubViewController`, any number of them on any number of
devices. A screen is a record of the controller's fields and of its outstanding
reads; `Open`, `Cover`, `Reappear` and `Close` are what UIKit calls on it;
`AdminReply` and `MemberReply` are the two nested closures; `TapJoin`,
`TapLeave` and `Confirm` the three branches that write. `InfoReply` is the one
answer that matters of what `viewDidLoad` asks for the display: of a club without
a description (`Described`) it stops the app. Each step is a step or a stutter of
Links over the same database variables (property `Spec`, proved).

**ProfileView** is `ProfileViewController` in the same style, with the auth
listener as `AuthCallback` and the user the opener asked for kept as history
(`loaded`). `NameReply` shows a user's name or, when he has never completed the
sign-up form (`profiled`), stops the app.

**Session** is who uses the app. `app[d]` holds what is in front, `account`
(`Auth.auth().currentUser`, kept over restarts), `user` (`self.user` of every
form, which their auth listeners set) and the sign-ins under way. A sign-in is
`SignIn`, then the server's `Authenticate`, then its answer: `Accepted`,
`NotVerified` or `Failed`, so that a kill, a loss or a second sign-in fits
between any two of them. `FinishSignUp` is the `setValue` at `users/uid`, which
covers every leaf below, followed by the upload, for which `currentUser!` is
unwrapped: when nobody is signed in any more the write is issued and the app
`"doomed"`, so that the connection may or may not have sent it when `SessionKill`
comes. `UploadSucceeds` keeps the code's two users apart, the one of the path and
the one of the node.

**CheckIn** is an event from the form that creates it to the lists that show it.
`AddNewEvent` writes the node and shows the code in one step, as the code does,
so that `Scan` on another phone may come while the write still waits.
`TableAdded` and `OwnAdded` are the two lists that stop the app when they meet an
event without its fields; rows are only ever appended to and have no state. The
check-in itself is `Attach` of Links.

**LiveTable** is the program that `MembersTableViewController`,
`ClubTableViewController` and `FriendTableViewController` have in common.
`Walk` is the removal loop, turn by turn (`Turn`): the indices of a copy, the
shrinking rows; `Enumerated` is what its last turn leaves.

**Founding** is `createClub`, `saveClubPhoto` and the list of one's clubs, over
a Database of its own because it needs the leaves of a club's node, together
with `Join` of other users, whose entries lie in the node that a repeated
founding sets.

**Search**, **Analytics** and **Feed** model the three screens that mix many
answers. In them the database is only what it answers: their properties are
about the order of answers, and any match, list or member the server could
answer is an answer of the model. An observer of the feed is called at every
change of the user's node: at a check-in with one more event (`CheckIn`), at any
other change with the events he had (`Changed`). That a profile edit clears his
list is left to Session.

Common abstractions: pictures, wording, layout and field validation are left
out; a stop of the app (a forced unwrap, an index out of range, UIKit's
consistency check of a table) is the death of the device (in Session in a step of
its own after `"doomed"`) or a variable of its own: `trap` (Feed), `fault`
(Search), `crashed` (Analytics), `halted` (LiveTable).
An answer reads the database at the step in which its closure runs: the SDK
calls closures with its own newest view on the main queue.

## 3. Runs

| run | what it asks | instance |
|---|---|---|
| `links` | do the two halves agree and stand for the user's last tap; is the abstract promise kept; is no link half written for ever | two phones of one account, a club that can be joined, a founded one, an event; queues of 4 |
| `club_screens` | does the button say what it does and what is true; is every step a step of Links | two screens stacked on one phone, two clubs, one of them founded by the user and with a description, an event to scan, two reads of each kind |
| `profile_screens` | the same for profiles | two screens on one phone, two users, with or without a profile, two reads |
| `profile_loaded` | *violated*: does a screen show the profile it was loaded for | one screen |
| `session` | have the tabs a user with a profile; is a node its user's own; is a stored picture listed | one phone, one user by mail and one by provider, three things under way |
| `signup_edit` | *violated*: does editing a profile leave the lists in step | the same phone, one standing follow |
| `check_in` | does a check-in stand; is a listed event whole; does one attend only what one was asked | a founder's phone and a guest's, two events, queues of 3 |
| `founding` | is a listed club whole, on the server and on both phones; has it its own picture; does who joins stay | two phones, one form, two clubs, queues of 3 |
| `tables` | is the table the list; does every entry get its row | three entries, two loads each, four rows |
| `search` | does a row open what it shows; is the latest search complete | three searches over clubs and people |
| `analytics` | is nobody left out; is every snapshot drawn | four users, two dormitories, three snapshots |
| `feed` | is each check-in listed once, none missed; does each come | two users to follow, two events of one name, one user at both and the other at one; three observers, two reads or downloads of one event for one user |

### Bounds

* `MaxPending` bounds a device's queue. Four writes are two whole taps on one
  link, or one tap on each of two links: enough for every overlap of an attach
  with a detach, for a resend that starts in the middle of a tap, and for two
  phones to race. In Links a third tap only repeats the second's situation, as
  the proof (which has no such bound) confirms. On screens two writes are enough
  to make a second tap wait for the first. Three in CheckIn hold the write of an
  event and both writes of a check-in of its founder: so he can check in while the
  event's write, which the server has applied, is not answered yet and is sent
  once more with the check-in behind it. Three in Founding hold a whole founding
  and the picture of it or of another.
* `MaxReads`, 2, lets the chain of one appearance overlap that of the next,
  which is where answers of different chains meet. `MaxLoads` does the same for
  entries that come back. In Feed `MaxReads` bounds the reads and downloads under
  way for one event of one user, and `MaxWatches`, 3, all observers: two of one
  user, after following him again, with one of the other beside them.
* `MaxWork`, 3, bounds what a phone of Session waits for at a time: sign-ins,
  unacknowledged writes and uploads together. Three is a submission (a write and
  an upload) with a sign-in of another user around it, or three sign-ins of which
  each overtakes another.
* `MaxRows`, 4, is one more row than entries, so a duplicate has room.
* `MaxSearches`, 3, is the first number with an earlier search on either side of
  a change of scope. `MaxSnapshots`, 3, has a snapshot that starts and ends
  within another.

Four configurations also have a CONSTRAINT, which keeps a run from going on where
its properties have less and less to say:

* `SomebodyApart` (`session`): at most one of the two users is `crossed`, and when
  one is, the phone waits for two things at a time instead of three. An answer to a
  sign-in marks the user who comes in, and only him, so the run goes on behind a
  form or an upload that changed hands, with the other user's claims unimpaired.
  When both are crossed nothing is left that three of the properties claim; the
  fourth, *TabsHaveUser*, is met by every interleaving of three sign-ins before.
* `FewAtOnce` (`check_in`): no more than three writes under way on both phones
  together, two prompts in a history, and an event that nobody attends early. The
  founder's check-in behind the repeated write of his event, one of a guest beside
  it, and a prompt for the one event while the camera has noted the other are all
  within.
* `FewReads` (`club_screens`): no more than three reads under way on the two
  screens together, so that one chain of reads overlaps the next of its own screen
  and one of the other, but not both screens at their limit at once.
* `FewMissing` (`profile_screens`): the user of the phone has a profile, and as long
  as the other has none only one of the screens is open. All that a missing profile
  does is to stop the app.

All properties of these runs are theorems (section 4), whose proofs know no bound
and no constraint; *PhotoListed* and those about a phone's own view need what their
runs have too, that accounts are not shared. `founding` runs without a constraint:
foundings that mix their pictures up are explored like all others.

Symmetry is used only for sets whose elements no configuration tells apart
(screens of one phone, the events of CheckIn, clubs of Founding) and in no run with a
property under fairness.

Deadlock is checked wherever the system goes on for ever. In `tables`, `search`,
`analytics` and `feed` it is not: there the app may be stopped by a trap, and
searches and snapshots run out with their bound.

### Fairness

* Links: a device that has something to send sends it (`WF` of `Serve`), and an
  answer that is possible again and again comes (`SF` of `Ack`): a connection
  now and then lives long enough for one. The SDK retries without end while the
  app lives, which justifies both; `WF` would not do for the answer because every
  drop takes it away. Nobody has to tap, and nobody has to stop tapping.
* LiveTable, Analytics, Feed: reads and downloads are answered (a download also
  by an error), and the main queue runs what was dispatched to it.
* No action of a user, no kill and no drop is ever fair.

### What the properties mean

*LinkIntegrity*: once everything written about a link has reached the server,
both lists hold the user's last choice, unless the link is torn. *OwnView*:
while that is under way, the phone that wrote already shows the choice on every
screen. *KeepsPromise*: over time, a link does nothing but what LinkPromise
allows. *LinkSettles*: a link is not half written for ever.

*TitleMatchesAction*, *OfferIsCurrent*, *OnlyFoundersEdit*, *ButtonReturns*
(ClubView) and *TitleIsCurrent*, *FollowIsMeant* (ProfileView) are the truth of a
button whose title, visibility and flags are set by different closures.
*OfferIsCurrent*, *ButtonReturns*, *TitleIsCurrent* and *FollowIsMeant* are claims
about a phone that shares its account with no other; their runs have one phone.
*FollowIsMeant* speaks of screens that still act on another user (one whose
`UserID` the auth listener has replaced opens the editor, run `profile_loaded`),
and in both directions: Follow never unfollows and Unfollow never follows. What it
leaves out are the screens in `outdated`, whose `isFollowing` is older than an
unfollow of the same user on another screen; there the code's Follow unfollows.

*TabsHaveUser*: no path leads to the tabs without a user, not even that of an
address that is not verified, which the code signs out and sends home: only the
alert is in the way. *ProfileBeforeTabs* names every way to the tabs without a
profile (`skipped`): the form quit, killed before its write was sent, never shown
because the answer to the first sign-in was lost. *NodeIsOwn* and *PhotoListed*
hold for a user until he comes in while a form or an upload of another is under way
(`crossed`). *PhotoListed* is about a picture whose upload succeeded (`stored`); a
user whose latest upload failed or died, or for whom a form was submitted when he
had been signed out, is not in `stored`, and the code leaves him without.

*AttendanceStands* and *EventsAreWhole* hold until somebody confirms a check-in
before the event's fields have arrived (`early`). *AsPrompted* is about the
camera, whose own key moves on behind the screen it opened.

*ListedClubsExist* holds because the node is written first: the swapped order is
its mutant. *OwnPicture*: a club whose founding has come to rest has one picture,
its own. It exempts `failed` uploads and clubs that are `mixed`: those whose picture
was listed for a later club of the form, and a later club that got an earlier one's
picture after its own. A later club that gets the earlier picture first, and its
own over it, is not exempt. *MembersStay* holds unless one joins before the founding
is acknowledged (`rash`).

*TableIsList* holds until an entry leaves while it loads (`hasty`).
*RowOpensWhatItShows* holds until the scope button is moved over rows or answers
(`flipped`). *NobodyUncounted* allows a chart to count members twice, which it
does from the second snapshot on, but not to lack one. *FeedOnce* and
*FeedComplete* are the two sides of the feed's check for duplicates.

The history variables in brackets name exactly what the code gives up; section 5
says where.

## 4. Proofs

Every invariant and every action property that a passing run checks is a theorem,
for any sets of users, clubs, events, devices, screens and forms and for any
bounds, from the assumptions the modules name: at least one device, functions that
map into the sets they should, the absent values outside them, bounds that are
naturals (`MaxSnapshots` at least one), finitely many people in Analytics, where
they are counted. The hypotheses that go beyond this are in the statements:
`OwnPhones` and `OnePhone`, explained where they occur.

**LinksProofs**

* `TypeCorrect`: `Spec => []TypeOK`.
* `Induction`: `Spec => []IInv`. `LinkIntegrity` and `OwnView` are not inductive:
  neither says anything of a link whose writes are half way, which is where every
  step starts. `Steady(l)` adds what the steps need: only one device has writes
  on `l`; that device sees the choice; a half all of whose pending writes were
  sent holds on the server what the device sees (so that an answer, which takes
  the oldest write away, changes nothing that is seen); and a link at rest holds
  the choice. A tap on a link that is not raced re-establishes it from nothing,
  which is why a race may be forgotten; a resend keeps it because the order of
  the queue is kept; a kill keeps it for the links all of whose writes were sent.
* `Integrity` and `OwnChoice`: the two properties follow from `IInv`.
* `PromiseKept`: `Spec => KeepsPromise`. Every step of Links is, under the mapping
  of `wanted` and `Status`, a `Tap` or `Network` of LinkPromise. `Steady` is what
  rules the status `"half"` out.
* The last section holds the lemmas about a link that one phone has for itself
  (`Alone`): what that phone sees of it changes by its own taps and by kills only.
  The proofs about screens rest on it.

**ClubViewProofs**

* `ClubInduction`: `ClubSpec => []ClubInv`, where `ClubInv` adds to the types that
  a founder's entry in `admin_clubs` is never overwritten (`AdminsKept`, from
  which every read of it has one answer) and, per screen, that `isAdmin` means
  founder, that a founder's screen never has a second read under way, and that a
  visible title is the one of the flags (`Sound`). The second is what
  `TitleMatchesAction` needs of another chain's answer.
* `ClubTypeCorrect`, `TitleIsTruthful`, `EditorsAreFounders`: the type invariant,
  `TitleMatchesAction` and `OnlyFoundersEdit`.
* `ClubImplementsLinks`: `ClubSpec => Spec`. The refinement mapping is the
  identity on the database variables and the two histories; a screen step either
  leaves them alone or is the tap of Links. `ClubIntegrity`: hence
  `ClubSpec => []LinkIntegrity`.
* `OffersAreCurrent`, `ButtonsReturn`: the other two properties, from
  `OwnPhones`, that no two phones share an account. Without it they are false: the
  other phone's tap moves what this phone sees while its button stays. The
  strengthening says that a phone shows one screen, and that this screen's flag is
  what the phone sees of the link, also while a read is out.

**ProfileViewProofs**: `ProfileInduction` (`ProfileInv` carries `IInv` and what a
screen's title, flag and reads owe each other around the auth callback);
`ProfileTypeCorrect`, `ProfileImplementsLinks`; from `OwnPhones`
`TitlesAreCurrent` and `FollowsAreMeant`. The latter needs that a screen which keeps
`isFollowing` is right about it or `outdated` (`Kept`): then a reply that finds
no follower, and says Follow, can only meet a flag that is down. A step of the
phone's own other screens is the only one that makes a flag wrong, and puts the
screen into `outdated`.

**DatabaseProofs** is about queues. The write a device sees for a leaf is the last
one that covers it, found by a descent on the length of the queue (`LeastElement`,
`LastExists`). Three notions carry the proofs of the modules above it. Each is kept
by whatever a connection does (`Serve`, `Ack`, `Resend`), and by a kill as far as
said below, so that a module only has to look at its own taps:

* `Guarded(P, N)`: leaves `P` never get ahead of leaves `N`, on the server and in
  every queue, counted from the first write that has still to be sent. A kill,
  which forgets a whole queue, keeps it. `GuardedSeen`: a device that sees one of
  `P` sees all of `N`.
* `Kept(p)`: leaf `p` is stored, or some device has still to send a write that
  fills it; and whatever queue holds a write that clears it holds a later one that
  fills it again. This is what survives a resend: a queue that starts over clears
  the leaf and fills it again. A kill keeps it if the dying device's writes on the
  leaf have landed (`KeptForget`).
* `Due(d, p)`, with `Uncleared(p)`: the same promise of one device, for leaves no
  queue clears without filling them in the same write. A kill breaks it for the
  device that dies and for nobody else, which is exactly how profiles are lost.

**FoundingProofs**. `FoundingTypeCorrect`, whose invariant carries that a key which
was not generated yet is spoken of nowhere. `ListedAreWhole`: an entry in
`admin_clubs` is `Guarded` behind the club's fields, admin and member.
`MembersAreKept`: the leaves of a join are `Kept`, because who joins a club whose
founding is not acknowledged is `rash`; after that no queue holds the founding's
`setValue`, which alone could clear them. `PicturesAreOwn`: a club's server copy has
one picture at most; as long as a form uploads a club's picture no other form and no
other phone has to do with that club (`Holds`); and a club that is neither `failed`
nor `mixed` is `Uploading`, or its own picture's leaf is `Kept`. The write of a
picture covers the leaves of every other picture of that club (`Tidy`), so two of
them never stand side by side.

**CheckInProofs**. `CheckInTypeCorrect`, `OnlyPromptedAttend`; `WholeEvents`:
whatever speaks of an event is `Guarded` behind its fields, unless confirmed early.
`CheckInsStand`: both halves of a check-in that was neither early nor torn are
`Kept`. The event's `setValue` is the only write that clears an attendee. A check-in
made by the founder's own phone stands behind it in the same queue; a check-in
from another phone, made when the fields had arrived, could still be cleared by a
resend, which is why `early` is about the answer and not the arrival.

**SessionProofs**. `SessionTypeCorrect`; `TabsAreSignedIn`, whose invariant follows
the alert and the stale sign-ins; `NodesAreOwn`: no queued write, upload or form
says anything foreign of a user nobody crossed. `ProfilesComeFirst`: a user who has
an account and is neither `skipped` nor `crossed` has his profile on the server, or
some device has a sign-in under way that will lead him to the form, or has him in
front of it, or owes his profile (`Due`); wherever he is signed in it is one of the
last two, or the server has it. `LostForms` adds that a sign-up form in front is
submitted to the node of the user it was opened for, unless his form counts as lost:
so a submission settles its own user's account. `PicturesAreListed`: the leaf of a
stored picture is `Kept`
once no upload of it runs. Every submission that clears the leaf starts an upload for
the same user or takes him out of `stored`: the second is the submission that dooms
the app, whose write may outlive it on the server. It assumes `OnePhone`, as the run does: a form
submitted on a second phone sets the whole node, and when it is sent late, after an
upload of its own that failed, it clears the picture that the first phone has
uploaded since.

**ScreenProofs** is about the screens that only read.

* Feed: `FeedInduction`, with `event_names` the names of the rows (`NamesAreRows`);
  a call of observers only adds reads (`CalledAdds`), so what was missing before a
  change is under way after it. `FeedTypeCorrect`, `ListedOnce`, `NoneMissed`.
* Search: `SearchInduction`. `RowOpensWhatItShows` needs to know, while the scope
  rests, that the table has as many rows as the list of the scope, that the other
  list is empty and nothing is on its way to it (`AtRest`); then an answer inserts
  its row at the end of both. `LatestComplete` needs that every row and every
  picture under way belongs to one search which is not asked for any more
  (`SearchesApart`), and that no answer is in a list twice or both in a list and
  on its way (`RowsOnce`). `SearchTypeCorrect`, `RowsOpenRight`, `SearchIsComplete`.
* Analytics: `AnalyticsInduction`. The counters are at least the number of members
  that each snapshot has counted, dormitory by dormitory, also while its answers
  mix with those of others (`CountersCover`), and exact while there is one snapshot
  (`FirstExact`). `AnalyticsTypeCorrect`, `ChartsCover`.
* LiveTable: `TableInduction`. While nobody leaves in haste, an entry has one load
  and no row, or one row and no load, and rows are distinct (`TableAtRest`), from
  which the cardinality in `TableIsList` follows. The removal loop is taken apart
  at the turn that finds the entry: before it the walk has changed nothing, found
  as the least turn that differs; at it one row goes, and after it no row of the
  copy is the entry again. So the loop stays within the rows and removes exactly
  one. `TableTypeCorrect`, `TablesAreLists`.

Only model-checked: liveness (`LinkSettles`, `EntryListed`, `SnapshotDrawn`,
`FeedComes`), because the prover has no rules for fairness and ENABLED. The two
violated properties are refuted by their runs.

## 5. Known deviations

What the code does that a user, or the project's own documents, would not
expect. Two are violated properties, each with a run of its own; the others are
exceptions in properties or traps of the model, named in brackets.

| where | what happens | in the model |
|---|---|---|
| `ProfileViewController` 140 | the auth listener sets `UserID` to the signed-in user, so a loaded profile turns into one's own when it appears again | run `profile_loaded` |
| `CompleteSignupViewController` 359 | submitting *Edit Profile* replaces `users/me` and with it one's lists and picture | run `signup_edit` |
| `ProfileViewController` 56, 173 | an answer without follower sets the title but not `isFollowing`: a screen whose user was unfollowed on another screen says Follow and unfollows | `outdated` in `FollowIsMeant` |
| `ProfileViewController` 77 | the profile of a user who has not finished the sign-up form stops the app | `Dies` in `NameReply` |
| `ClubViewController` 163 | a club without a description stops the app, among them one whose founding has not reached the server | `InfoReply`, `Described` |
| `ClubViewController` 110 | `isMember` is never reset by a read: a screen whose club was left on another screen hides its button and does not show it again | `Outdated` in `ButtonReturns` |
| `ClubViewController` 56, 217, 225; `ProfileViewController` 182 | a kill between the two writes of a tap leaves one half; two phones of one account can do the same | `torn` |
| `MembersTableViewController` 62 | an entry that leaves while it loads gets its row afterwards, for good | `hasty` in `TableIsList` |
| `MembersTableViewController` 74 | with two rows of one entry the removal loop runs past the end | `hasty` in `TableIsList` (`halted`) |
| `CreateNewClubViewController` 129 | the upload's completion reads `self.ClubKey`, so with two foundings of one form the first picture goes to the second club | `mixed` in `OwnPicture` |
| `CreateNewClubViewController` 147 | *Edit Club* opens the form that founds: submitting it founds another club | `Open` of Founding |
| `CreateNewClubViewController` 149 | a founding that is sent a second time overwrites the node, with members who joined in between | `rash` in `MembersStay` |
| `CreateClubEventViewController` 129 | the event's `setValue`, sent late or a second time, erases the attendees who checked in before | `early` in `AttendanceStands` |
| `EventsTableViewController` 44, `EventViewController` 54 | a check-in before the event's fields have arrived makes a node without them, which stops the apps that list it | `early` in `EventsAreWhole`, `TableAdded`, `OwnAdded` |
| `YourClubsViewController` 42 | a club whose picture is still being uploaded, or failed to, stops its founder's app | `Dies` in `NodeReply` |
| `SearchViewController` 90, 118 | a match without `photo_url` stops the app | `fault = "photo"` |
| `SearchViewController` 101 | answers of earlier searches add rows to the latest one | `LatestComplete` allows more rows |
| `SearchViewController` 102, 144, 189 | moving the scope over rows or answers makes rows open something else, or stops the app | `flipped` in `RowOpensWhatItShows` |
| `AnalyticsViewController` 50 | counters are never reset: the second snapshot's chart counts members again | `NobodyUncounted` is exact for one snapshot only |
| `AnalyticsViewController` 44 | a member who has not finished the sign-up form stops the app | `crashed` |
| `HomeViewController` 50, 52 | the check-ins of a user one no longer follows keep coming | `Unfollow` changes no observer |
| `HomeViewController` 65 | a check-in to an event whose fields have not reached the server stops the app | `trap = "missing"` |
| `HomeViewController` 66, `CreateClubEventViewController` 127 | an event without a date stops the app that lists it | `trap = "undated"` |
| `HomeViewController` 81 | of two events of one name a user attends, one is listed | `Shows` is by name |
| `LoginViewController` 104 | a second sign-in may be started while the first is unanswered; the later answer signs another user in, or out, under the screens of the first | `overtaken` in `TabsHaveUser`, `crossed` in `NodeIsOwn` |
| `LoginViewController` 71, `AppDelegate` 37 | who loses the answer to his first sign-in, or quits the form, comes to the tabs without a profile and never gets the form again | `skipped` in `ProfileBeforeTabs` |
| `LoginViewController` 160 | an address that is not verified is signed out and sent home; the alert presented first keeps the segue from running | `NotVerified` |
| `CompleteSignupViewController` 353, 359 | picture and fields go to whoever is signed in when they are written, not to whom they were chosen by | `crossed` in `NodeIsOwn` |
| `CompleteSignupViewController` 359, 342 | a form submitted after its user was signed out replaces his node, clears his picture and then stops the app | `"doomed"` in `FinishSignUp`, `stored` in `PhotoListed` |
| `CompleteSignupViewController` 347, 359 | every submission clears `photo_url`; an upload that fails or dies leaves the user without one | `stored` in `PhotoListed` |
| `CameraViewController` 147 | any other code stops the app | `ScanForeign` |
| `CameraViewController` 152 | `segued` is reset by no return to the camera: it opens one screen and notes further codes in vain, until Cancel presents another camera | `Scan` |

## 6. What is not modelled

* `ActivityTableViewController`: no scene of the storyboard and no source refers to
  it, so it never runs.
* The rows of lists that are only appended to (own clubs, own events, a club's
  events): what can go wrong there is the forced unwrap, which is modelled.
* The identity providers' dialogues, password reset, the camera session, drawing a
  code and saving its picture to the album: the system's or the providers'.
* Replies that reach the screens below the log-in after Sign Out: the screens of
  every module would have to be composed with Session; what happens is one unwrap
  of `currentUser`.
* Member and event counts, descriptions and pictures on the screens; the charts'
  drawing (one of five charts stands for all); pickers, validation and keyboards.
* The vendored libraries under `Pods/`, by far most of the repository, and the two
  stray files. Of the app's own Swift the definitions stand for some 34 % of all
  lines, blank ones and imports included.

## 7. Plan

Done: every screen the storyboard reaches has its model, and every safety property
its runs check is proved. What would add most from here:

1. What a check-in promises, as an abstract specification next to LinkPromise:
   an event that is announced, whole, attended; CheckIn shown to implement it.
2. Session composed with the screens, for replies after Sign Out.
3. `PhotoListed` for several phones, with a history variable for the pictures a
   second phone's form clears.
