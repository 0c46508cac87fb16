------------------------------ MODULE ZcoSpace ------------------------------
(***************************************************************************)
(* Admission control of ZCO space: the requisitions and attendants of      *)
(* ici/library/ion.c, over the accounts of ZcoBooks.  Makers put pieces of *)
(* a file into an object of their own (ionCreateZco, ionAppendZcoExtent,   *)
(* bpContinueAcq); movers copy an inbound object to the outbound account   *)
(* and destroy the first (bptransit).  A task that is not patient passes   *)
(* no attendant.  What tasks let go of is cloned and destroyed by others.  *)
(*                                                                         *)
(* A requisition is lodged, looked at, waited for and dismissed in         *)
(* transactions of their own; other tasks step in between them.            *)
(***************************************************************************)
EXTENDS ZcoBooks

CONSTANTS
    Maker, Mover, \* tasks
    FileOf,       \* the file each maker puts into its object,
    Piece,        \* the length of each piece,
    Pieces,       \* and how many there are
    AcctOf,       \* the account of each maker
    Rank,         \* coarse and fine priority of each task, as one number
    Impatient,    \* makers without an attendant
    Mortal,       \* tasks that may be told to quit
    MaxOccupancy, \* of each account, as set by ionadmin
    Counting,     \* POSIX semaphores count; SVR4 ones are binary
    MaxClones     \* bound: clones that are made

Task == Maker \cup Mover

ASSUME ZcoSpaceAssumption ==
    /\ IsFiniteSet(Task) /\ Maker \cap Mover = {}
    /\ Impatient \subseteq Maker /\ Mortal \subseteq Task \ Impatient
    /\ FileOf \in [Maker -> File] /\ AcctOf \in [Maker -> Acct]
    /\ \A t, u \in Maker : t # u => FileOf[t] # FileOf[u]
    /\ Piece \in [Maker -> Nat \ {0}] /\ Pieces \in [Maker -> Nat \ {0}]
    /\ MaxOccupancy \in [Acct -> Nat] /\ Rank \in [Task -> Nat]
    /\ \A t \in Maker : Piece[t] * Pieces[t] <= MaxOccupancy[AcctOf[t]]
    /\ Counting \in BOOLEAN /\ MaxClones \in Nat

VARIABLES
    books,        \* see ZcoBooks
    requisitions, \* the queue of each account
    sem,          \* value of the semaphore of each attendant
    ended,        \* attendants that were paused
    pc,           \* where each task is
    mine,         \* the object each maker works on, or a mover has chosen; 0 for none
    need,         \* the space each task asks for
    left,         \* pieces each maker has yet to ask for
    clones        \* how many clones were made

vars == <<books, requisitions, sem, ended, pc, mine, need, left, clones>>

Account(t) == IF t \in Maker THEN AcctOf[t] ELSE "out"
Room(b, a) == MaxOccupancy[a] - b.occupancy[a]

TypeOK ==
    /\ requisitions \in [Acct -> Seq([task : Task, need : Nat, served : BOOLEAN])]
    /\ sem \in [Task -> Nat] /\ ended \subseteq Task
    /\ ~Counting => \A t \in Task : sem[t] \in {0, 1}
    /\ pc \in [Task -> {"idle", "provide", "check", "ready", "awarded", "wait",
                        "create", "cancel", "dismiss", "stopped"}]
    /\ mine \in [Task -> 0 .. MaxAddr] /\ left \in [Maker -> Nat]
    /\ \A a \in Acct : \A i, j \in DOMAIN requisitions[a] :
          /\ Account(requisitions[a][i].task) = a
          /\ i # j => requisitions[a][i].task # requisitions[a][j].task
    /\ \A t \in Task : (\E i \in DOMAIN requisitions[Account(t)] :
                           requisitions[Account(t)][i].task = t)
                         <=> pc[t] \notin {"idle", "stopped"}

Init ==
    /\ books = Blank
    /\ requisitions = [a \in Acct |-> <<>>]
    /\ sem = [t \in Task |-> 0] /\ ended = {}
    /\ pc = [t \in Task |-> "idle"]
    /\ mine = [t \in Task |-> 0] /\ need = [t \in Task |-> 0]
    /\ left = Pieces /\ clones = 0

-----------------------------------------------------------------------------
(* Requisitions.                                                             *)

Given(n) == IF Counting THEN n + 1 ELSE 1

PositionOf(q, t) == CHOOSE i \in DOMAIN q : q[i].task = t
Served(t) == LET q == requisitions[Account(t)] IN q[PositionOf(q, t)].served

\* The loop of ionRequestZcoSpace: behind the last of the same or a higher rank.
Insert(q, r) ==
    LET ahead == {i \in DOMAIN q : Rank[q[i].task] >= Rank[r.task]}
    IN  InsertAt(q, IF ahead = {} THEN 1 ELSE Max(ahead) + 1, r)

\* ionProvideZcoSpace goes down the list, takes off what has been served
\* before, serves what fits in the rest, and stops at what does not.
Provided(q, room) ==
    LET claimed(i) == Total([j \in DOMAIN q |-> q[j].need], 1 .. i)
    IN  [i \in DOMAIN q |->
            [q[i] EXCEPT !.served = @ \/ \A j \in 1 .. i : q[j].served \/ claimed(j) <= room]]

\* ... and gives the semaphores of those it serves.
Provide(queues, b, a) ==
    LET q == Provided(queues[a], Room(b, a))
        awarded == {q[i].task : i \in {k \in DOMAIN q : q[k].served /\ ~queues[a][k].served}}
    IN  /\ requisitions' = [queues EXCEPT ![a] = q]
        /\ sem' = [t \in Task |-> IF t \in awarded \ Impatient THEN Given(sem[t]) ELSE sem[t]]

\* Mutant: the first of the queue, whoever lodged it.
DismissedFirst(t) == [requisitions EXCEPT ![Account(t)] = Tail(@)]

Dismissed(t) ==
    [requisitions EXCEPT ![Account(t)] = RemoveAt(@, PositionOf(@, t))]

\* The first part of ionRequestZcoSpace, for a piece of a file.
RequestPiece(t) ==
    /\ left[t] > 0
    /\ need' = [need EXCEPT ![t] = Piece[t]]
    /\ left' = [left EXCEPT ![t] = @ - 1]
    /\ UNCHANGED mine

\* The same, for a copy of an inbound object.
RequestCopy(t) ==
    /\ \E z \in DOMAIN books.zco :
          /\ books.zco[z].acct = "in" /\ \A m \in Task : mine[m] # z
          /\ mine' = [mine EXCEPT ![t] = z]
          /\ need' = [need EXCEPT ![t] = LengthOf(books, z)]
    /\ UNCHANGED left

Request(t) ==
    /\ pc[t] = "idle" /\ t \notin ended
    /\ IF t \in Maker THEN RequestPiece(t) ELSE RequestCopy(t)
    /\ requisitions' = [requisitions EXCEPT ![Account(t)] =
                           Insert(@, [task |-> t, need |-> need'[t], served |-> FALSE])]
    /\ pc' = [pc EXCEPT ![t] = "provide"]
    /\ UNCHANGED <<books, sem, ended, clones>>

\* Try to service the request immediately.
TryNow(t) ==
    /\ pc[t] = "provide"
    /\ Provide(requisitions, books, Account(t))
    /\ pc' = [pc EXCEPT ![t] = "check"]
    /\ UNCHANGED <<books, ended, mine, need, left, clones>>

\* A request without an attendant is refused at once.
Check(t) ==
    /\ pc[t] = "check"
    /\ pc' = [pc EXCEPT ![t] = IF Served(t) THEN "awarded"
                               ELSE IF t \in Impatient THEN "cancel" ELSE "ready"]
    /\ UNCHANGED <<books, requisitions, sem, ended, mine, need, left, clones>>

\* Mutant: the semaphore keeps what an earlier award has left in it.
ReadyAsIs(t) ==
    /\ pc[t] = "ready"
    /\ pc' = [pc EXCEPT ![t] = "awarded"]
    /\ UNCHANGED <<books, requisitions, sem, ended, mine, need, left, clones>>

\* "Ready attendant to wait": given and taken, so that it is 0 if it is binary.
Ready(t) ==
    /\ pc[t] = "ready"
    /\ sem' = [sem EXCEPT ![t] = Given(@) - 1]
    /\ pc' = [pc EXCEPT ![t] = "awarded"]
    /\ UNCHANGED <<books, requisitions, ended, mine, need, left, clones>>

\* ionSpaceAwarded
SpaceAwarded(t) ==
    /\ pc[t] = "awarded"
    /\ pc' = [pc EXCEPT ![t] = IF Served(t) THEN "create" ELSE "wait"]
    /\ UNCHANGED <<books, requisitions, sem, ended, mine, need, left, clones>>

\* The task does not look at its requisition again.  sm_SemEnded gives an
\* ended semaphore once more.
Take(t) ==
    /\ pc[t] = "wait" /\ sem[t] > 0
    /\ sem' = [sem EXCEPT ![t] = IF t \in ended THEN @ ELSE @ - 1]
    /\ pc' = [pc EXCEPT ![t] = IF t \in ended THEN "cancel" ELSE "create"]
    /\ UNCHANGED <<books, requisitions, ended, mine, need, left, clones>>

\* An object no maker works on.
Released(z) == \A t \in Maker : mine[t] # z

\* There is an address left for another object, and for another lien (bound).
Addressable == Free(books.zco) # {} /\ Free(books.lien) # {}

\* The length is declared to be okay: what is left of the space is not looked at.
CreatePiece(t) ==
    LET z == IF mine[t] = 0 THEN NewAddr(books.zco) ELSE mine[t]
        begun == IF mine[t] = 0 THEN CreateZco(books, z, AcctOf[t]) ELSE books
    IN  /\ books' = AppendExtent(begun, z, FileOf[t], Piece[t])
        /\ mine' = [mine EXCEPT ![t] = z]
        /\ pc' = [pc EXCEPT ![t] = "dismiss"]
        /\ UNCHANGED <<requisitions, sem>>

\* bptransit looks whether the bundle is still in transit, or another of its
\* size, and shreds its ticket before it destroys the inbound object.
Intact(t) ==
    /\ mine[t] \in DOMAIN books.zco /\ books.zco[mine[t]].acct = "in" /\ Released(mine[t])
    /\ LengthOf(books, mine[t]) = need[t]
CreateCopy(t) ==
    LET copied == CopyZco(books, NewAddr(books.zco), mine[t], "out")
    IN  IF Intact(t)
        THEN /\ books' = DestroyZco(copied, mine[t])
             /\ Provide(Dismissed(t), books', "in")
             /\ pc' = [pc EXCEPT ![t] = "idle"]
             /\ mine' = [mine EXCEPT ![t] = 0]
        ELSE /\ pc' = [pc EXCEPT ![t] = "cancel"]
             /\ UNCHANGED <<books, requisitions, sem, mine>>

Create(t) ==
    /\ pc[t] = "create" /\ Addressable
    /\ IF t \in Maker THEN CreatePiece(t) ELSE CreateCopy(t)
    /\ UNCHANGED <<ended, need, left, clones>>

\* ionShred.  A maker lets go of its object after its last piece, and of what
\* it has so far when its request is refused or interrupted.
Shred(t) ==
    /\ pc[t] \in {"cancel", "dismiss"}
    /\ requisitions' = Dismissed(t)
    /\ LET over == t \in Mover \/ pc[t] = "cancel" \/ left[t] = 0
       IN  /\ mine' = IF over THEN [mine EXCEPT ![t] = 0] ELSE mine
           /\ left' = IF over /\ t \in Maker THEN [left EXCEPT ![t] = 0] ELSE left
    /\ pc' = [pc EXCEPT ![t] = IF pc[t] = "cancel" /\ t \in ended THEN "stopped" ELSE "idle"]
    /\ UNCHANGED <<books, sem, ended, need, clones>>

\* The loop of a task ends when it has been told to quit.
Quit(t) ==
    /\ pc[t] = "idle" /\ t \in ended
    /\ pc' = [pc EXCEPT ![t] = "stopped"]
    /\ mine' = [mine EXCEPT ![t] = 0]
    /\ UNCHANGED <<books, requisitions, sem, ended, need, left, clones>>

\* zco_destroy_file_ref, once there is nothing more to make of the file.
ReleaseFile(t) ==
    /\ pc[t] \in {"idle", "stopped"} /\ mine[t] = 0 /\ (left[t] = 0 \/ pc[t] = "stopped")
    /\ FileOf[t] \in DOMAIN books.file /\ ~books.file[FileOf[t]].okay
    /\ books' = DestroyFileRef(books, FileOf[t])
    /\ UNCHANGED <<requisitions, sem, ended, pc, mine, need, left, clones>>

-----------------------------------------------------------------------------
(* The others.                                                               *)

\* ionPauseAttendant, by the signal handler of a task.
Pause(t) ==
    /\ t \in Mortal \ ended /\ pc[t] # "stopped"
    /\ ended' = ended \cup {t} /\ sem' = [sem EXCEPT ![t] = Given(@)]
    /\ UNCHANGED <<books, requisitions, pc, mine, need, left, clones>>

\* zco_clone, by whoever has the object.
Clone(z) ==
    /\ Released(z) /\ clones < MaxClones /\ Addressable
    /\ clones' = clones + 1
    /\ books' = CopyZco(books, NewAddr(books.zco), z, books.zco[z].acct)
    /\ UNCHANGED <<requisitions, sem, ended, pc, mine, need, left>>

\* Mutant: no callback is registered.
DestroyQuietly(z) ==
    /\ Released(z)
    /\ books' = DestroyZco(books, z)
    /\ UNCHANGED <<requisitions, sem, ended, pc, mine, need, left, clones>>

\* zco_destroy, with the callback that provides the space to others.
Destroy(z) ==
    /\ Released(z)
    /\ books' = DestroyZco(books, z)
    /\ Provide(requisitions, books', books.zco[z].acct)
    /\ UNCHANGED <<ended, pc, mine, need, left, clones>>

Proceed(t) ==
    \/ TryNow(t) \/ Check(t) \/ Ready(t) \/ SpaceAwarded(t)
    \/ Take(t) \/ Create(t) \/ Shred(t) \/ Quit(t)

Next ==
    \/ \E t \in Task : Request(t) \/ Proceed(t) \/ Pause(t)
    \/ \E t \in Maker : ReleaseFile(t)
    \/ \E z \in DOMAIN books.zco : Clone(z) \/ Destroy(z)

Spec == Init /\ [][Next]_vars

\* Tasks run, a maker goes on with the object it has begun, and objects are
\* delivered, sent or expire.  Requests are finite in number, so that it is
\* enough that work goes on as long as there is some.
Work ==
    \/ \E t \in Task : Proceed(t)
    \/ \E t \in Maker : mine[t] # 0 /\ Request(t)
    \/ \E z \in DOMAIN books.zco : Destroy(z)

FairSpec == Spec /\ WF_vars(Work)

-----------------------------------------------------------------------------
(* Properties.                                                               *)

\* The books balance whatever is copied, appended and destroyed, in whatever
\* account (zco.c): nothing is charged twice or never given back, and no file
\* is unlinked while a lien cites it or kept when none does.
BooksBalance == Balanced(books)

\* What has been served but not yet been used of account a.
Reserved(a) ==
    Total(need, {t \in Task : /\ Account(t) = a /\ pc[t] \notin {"idle", "dismiss", "stopped"}
                              /\ Served(t)})

\* Tasks create without a look at what is left (their length is declared to be
\* okay), and yet what is occupied and what is promised never exceed the limit.
Fits(a) == books.occupancy[a] + Reserved(a) <= MaxOccupancy[a]
NoOvercommit == \A a \in Acct : Fits(a)

\* "Request has been serviced; can now create ZCO": a task that comes out of
\* its wait, which does not look at its requisition again, was served.
CreatesServed == \A t \in Task : pc[t] = "create" => Served(t)

\* No requisition was put before one that has been served.
InTurn(q) == \A i, j \in DOMAIN q : i < j /\ q[j].served => q[i].served

\* Whatever the semaphores and the ranks: an account comes to exceed its limit only
\* while a task that was not served is about to create in it, or a requisition
\* has overtaken one that was served (ionRequestZcoSpace, ionProvideZcoSpace).
LimitHolds ==
    [][\A a \in Acct :
          /\ Fits(a) /\ InTurn(requisitions[a])
          /\ \A t \in Task : Account(t) = a /\ pc[t] = "create" => Served(t)
          => Fits(a)']_vars

\* ionShred and the end of a task give back what they had been promised, but
\* do not offer it to others.
Refused(t) == t \in ended \/ (t \in Mover /\ pc[t] \in {"create", "cancel"} /\ ~Intact(t))
                         \/ (t \in Impatient /\ pc[t] = "cancel")

Asking(t) == pc[t] \in {"provide", "check", "ready", "awarded", "wait"}

\* Tasks that ask for space all get it, in the end, as long as nobody gives
\* back what was reserved for him: no wake-up is lost between the look at the
\* requisition and the wait, and requisitions are served in turn.
SpaceInTheEnd ==
    (\E t \in Task : pc[t] = "provide") ~> \/ \A t \in Task : ~Asking(t)
                                           \/ \E t \in Task : Refused(t)
=============================================================================
