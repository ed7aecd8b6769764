----------------------------- MODULE ReadingQueue -----------------------------
(***************************************************************************)
(* What store.h promises of the node's offline store, without slots,       *)
(* headers or files: a bounded first-in first-out queue, and the image of  *)
(* it that a restart would find.                                           *)
(*                                                                         *)
(*   - a full queue gives up its oldest entry, never the newest            *)
(*     (store.cpp:197-199);                                                *)
(*   - image lags queue until a commit; after a power cut the queue is the *)
(*     image: entries taken since the commit come back ("a repeat, not a   *)
(*     loss", store.h:30-31), entries put since may be missing             *)
(*     (store.h:26-27);                                                    *)
(*   - an entry that is both queued and in the image stays in both until   *)
(*     it is taken, given up to make room, or skipped because its bytes    *)
(*     are damaged.                                                        *)
(*                                                                         *)
(* An entry is [id, ok]: ok is false when a failed or interrupted write    *)
(* destroyed its bytes.                                                    *)
(***************************************************************************)
EXTENDS Integers, Sequences

CONSTANTS
  Capacity,    \* entries the queue holds
  Entry,       \* the entries that may be put
  MayLoseAll   \* whether the file system may lose the image

VARIABLES
  running,     \* the store is mounted
  queue,       \* what the running node will drain, oldest first
  image        \* what it would drain after a power cut now

vars == <<running, queue, image>>

Elements(s) == { s[i] : i \in DOMAIN s }
Damaged(e)  == [e EXCEPT !.ok = FALSE]

Init == running = FALSE /\ queue = <<>> /\ image = <<>>

\* The queue with room for one more: the oldest goes when it is full.
Roomy(q) == IF Len(q) = Capacity THEN Tail(q) ELSE q

\* The bytes of at most one image entry are replaced, never those of an entry
\* that stays queued.
ReplacedBy(New(_)) ==
  \/ image' = image
  \/ \E j \in DOMAIN image :
       /\ image[j] \notin Elements(Roomy(queue))
       /\ image' = [image EXCEPT ![j] = New(image[j])]

LoseImage == MayLoseAll /\ image' = <<>>

Put(e) ==
  /\ running /\ running' = running
  /\ queue' = Append(Roomy(queue), e)
  /\ \/ image' = queue'
     \/ ReplacedBy(LAMBDA old : e)
     \/ LoseImage

PutFails ==
  /\ running /\ running' = running
  /\ \/ queue' = queue
     \/ Len(queue) = Capacity /\ queue' = <<Damaged(Head(queue))>> \o Tail(queue)
  /\ ReplacedBy(Damaged)

Skip ==
  /\ running /\ running' = running
  /\ \E k \in 1 .. Len(queue) :
       /\ \A j \in 1 .. k : ~ queue[j].ok
       /\ queue' = SubSeq(queue, k + 1, Len(queue))
  /\ image' \in {queue', image} \/ LoseImage

Take ==
  /\ running /\ running' = running
  /\ queue # <<>> /\ Head(queue).ok
  /\ queue' = Tail(queue)
  /\ image' = image

Commit ==
  /\ running /\ UNCHANGED <<running, queue>>
  /\ image' = queue \/ LoseImage

Restart ==
  /\ ~ running /\ running' = TRUE
  /\ queue' = image /\ image' = image

PowerCut ==
  /\ running /\ running' = FALSE
  /\ queue' = <<>>
  /\ \/ ReplacedBy(Damaged)
     \/ \E e \in Entry : ReplacedBy(LAMBDA old : e)
     \/ LoseImage

Wiped == ~ running /\ UNCHANGED <<running, queue>> /\ LoseImage

Next ==
  \/ \E e \in Entry : Put(e)
  \/ PutFails \/ Skip \/ Take \/ Commit
  \/ Restart \/ PowerCut \/ Wiped

Spec == Init /\ [][Next]_vars
=============================================================================
