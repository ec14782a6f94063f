----------------------------- MODULE DecodeVectors -----------------------------
(***************************************************************************)
(* The uids of the local address space (scheme/vm/transmit.scm, the part   *)
(* of encode that gives out uids, and really-encode in scheme/vm/prim.scm).*)
(*                                                                         *)
(* A message names a symbol, template, location or proxy by its uid, and   *)
(* other address spaces come back with the uid.  The decode vector maps    *)
(* uids to objects, the proxy vector to proxy-datas.  Slot 0 of each heads *)
(* a freelist that goes through the free slots and ends past the vector.   *)
(* An encoding may run out of heap at any point; then the collector runs   *)
(* and encoding is tried once more.                                        *)
(***************************************************************************)
EXTENDS Integers, Sequences, FiniteSets

CONSTANTS
  Object,     \* symbols, templates, locations and address spaces
  Proxy,      \* proxy-datas made here
  Self,       \* the local address space, in slot aspace-id-in-self
  Junk,       \* what a new vector holds before it is filled
  MaxThings,  \* bound: uid objects in one message
  MaxUid      \* bound: uids given out

ASSUME DecodeVectorsAssumption ==
  /\ Object \cap Proxy = {}
  /\ {Self, Junk} \cap (Object \cup Proxy \cup Nat) = {}
  /\ (Object \cup Proxy) \cap Nat = {}
  /\ MaxThings \in Nat /\ MaxUid \in Nat

Thing == Object \cup Proxy
Kind == {"decode", "proxy"}
KindOf(x) == IF x \in Proxy THEN "proxy" ELSE "decode"
NoUid == 0     \* #f; 0 is never given out

VARIABLES
  vec,     \* the decode vector and the proxy vector, from 0
  uid,     \* the uid slots of the things
  retry,   \* the message to encode again after the collection, or <<>>
  sent,    \* what messages that left said: pairs of a thing and its uid
  dead     \* proxies whose uid the owner has freed

vars == <<vec, uid, retry, sent, dead>>

Init ==
  /\ vec = [k \in Kind |-> IF k = "proxy" THEN [i \in {0} |-> 1]
                           ELSE [i \in 0 .. 1 |-> IF i = 0 THEN 2 ELSE Self]]
  /\ uid = [x \in Thing |-> NoUid]
  /\ retry = <<>>
  /\ sent = {}
  /\ dead = {}

Length(v) == Cardinality(DOMAIN v)
ThingsIn(xs) == {xs[i] : i \in DOMAIN xs}

-----------------------------------------------------------------------------
(* Giving out uids.  r holds the vectors, the uids and the *new-id-hotel*: *)
(* the things whose new uid is past the end of their vector, for each kind *)
(* in the order of their uids (the code has one list and skips the things  *)
(* of the other kind).                                                     *)

\* Mutant: the freelist index is not advanced past the end.
GetUidAgain(r, x) ==
  LET k == KindOf(x)
      next == r.vec[k][0]
  IN  IF r.uid[x] # NoUid THEN r
      ELSE IF next \in DOMAIN r.vec[k]
      THEN [r EXCEPT !.uid[x] = next, !.vec[k][0] = r.vec[k][next], !.vec[k][next] = x]
      ELSE [r EXCEPT !.uid[x] = next, !.hotel[k] = Append(@, x)]

\* get-uid, get-proxy-uid and real-next-id.
GetUid(r, x) ==
  LET k == KindOf(x)
      next == r.vec[k][0]
  IN  IF r.uid[x] # NoUid THEN r
      ELSE IF next \in DOMAIN r.vec[k]
      THEN [r EXCEPT !.uid[x] = next, !.vec[k][0] = r.vec[k][next], !.vec[k][next] = x]
      ELSE [r EXCEPT !.uid[x] = next, !.vec[k][0] = next + 1, !.hotel[k] = Append(@, x)]

\* encode_object for the first n of the things of a message.
GetUids(xs, n) ==
  LET r[i \in 0 .. n] ==
        IF i = 0 THEN [vec |-> vec, uid |-> uid, hotel |-> [k \in Kind |-> <<>>]]
        ELSE GetUid(r[i - 1], xs[i])
  IN  r[n]
Uids(xs) == GetUids(xs, Len(xs))

\* Mutant: every thing loses its uid.
DropAllIds(r) == [r EXCEPT !.uid = [x \in Thing |-> NoUid]]

\* drop-new-ids!: objects lose their new uids.  The freelist index stays where it
\* is, and proxies keep their uids: the list holds proxy-datas, and the type
\* dispatch only knows proxies.
DropNewIds(r) ==
  [r EXCEPT !.uid = [x \in Thing |-> IF x \in ThingsIn(r.hotel["decode"]) THEN NoUid ELSE r.uid[x]]]

\* Where the thing for slot i is in the hotel; the last one has the last uid.
Position(r, k, i) == i - (r.vec[k][0] - 1) + Len(r.hotel[k])

\* Mutant: the new things are one slot off.
ExtendOffByOne(r, k, length) ==
  [r EXCEPT !.vec[k] = [i \in 0 .. length - 1 |->
     IF i < Length(r.vec[k]) THEN r.vec[k][i]
     ELSE IF i > r.vec[k][0] THEN i + 1
     ELSE IF Position(r, k, i) - 1 \in DOMAIN r.hotel[k] THEN r.hotel[k][Position(r, k, i) - 1]
     ELSE Junk]]

\* setup-new-decode-vector!: copy the old vector, add the things in the hotel
\* from the next uid downwards, and link the rest.
Extend(r, k, length) ==
  [r EXCEPT !.vec[k] = [i \in 0 .. length - 1 |->
     IF i < Length(r.vec[k]) THEN r.vec[k][i]
     ELSE IF i >= r.vec[k][0] THEN i + 1
     ELSE IF Position(r, k, i) \in DOMAIN r.hotel[k] THEN r.hotel[k][Position(r, k, i)]
     ELSE Junk]]

Larger(m, n) == IF m < n THEN n ELSE m

\* extend-decode-vector: twice the length, or just what is needed, if there is
\* room for that; the empty set if there is not.
NewLengths(r, k) ==
  {Larger(2 * Length(r.vec[k]), r.vec[k][0]), r.vec[k][0]}

Full(r, k) == r.vec[k][0] > Length(r.vec[k])

\* update-decode-vectors!: the vectors that can result for one kind when there
\* is room.
Extended(r, k) ==
  IF Full(r, k) THEN {Extend(r, k, length) : length \in NewLengths(r, k)} ELSE {r}

\* The two attempts to encode a message.
Messages == UNION {[1 .. n -> Thing] : n \in 1 .. MaxThings}
Attempt(xs) ==
  /\ xs \in (IF retry = <<>> THEN Messages ELSE {retry})
  /\ ThingsIn(xs) \cap dead = {}
  /\ \A k \in Kind : Uids(xs).vec[k][0] <= MaxUid      \* bound

Becomes(r) == vec' = r.vec /\ uid' = r.uid

\* The second failure raises an exception.
Failed(xs) == retry' = (IF retry = <<>> THEN xs ELSE <<>>) /\ UNCHANGED <<sent, dead>>

-----------------------------------------------------------------------------
\* encode runs out of heap after some of the objects.
LoseSpace(xs) ==
  /\ Attempt(xs)
  /\ \E n \in 0 .. Len(xs) : Becomes(DropNewIds(GetUids(xs, n)))
  /\ Failed(xs)

\* There is no room for the first vector that has to be extended ...
CannotExtend(xs) ==
  LET r == Uids(xs) IN
  /\ Attempt(xs)
  /\ \E k \in Kind : Full(r, k)
  /\ Becomes(DropNewIds(r))
  /\ Failed(xs)

\* ... or there is for the decode vector but not for the proxy vector.
CannotExtendProxies(xs) ==
  LET r == Uids(xs) IN
  /\ Attempt(xs)
  /\ Full(r, "decode") /\ Full(r, "proxy")
  /\ \E e \in Extended(r, "decode") : Becomes(DropNewIds(e))
  /\ Failed(xs)

\* The uids are in the vectors, but there is no room for the list of proxies that
\* ran out of counts.
CannotReport(xs) ==
  /\ Attempt(xs)
  /\ ThingsIn(xs) \cap Proxy # {}
  /\ \E e \in Extended(Uids(xs), "decode") : \E f \in Extended(e, "proxy") : Becomes(f)
  /\ Failed(xs)

Encode(xs) ==
  /\ Attempt(xs)
  /\ \E e \in Extended(Uids(xs), "decode") : \E f \in Extended(e, "proxy") : Becomes(f)
  /\ retry' = <<>>
  /\ sent' = sent \cup {<<x, uid'[x]>> : x \in ThingsIn(xs)}
  /\ UNCHANGED dead

\* Mutant: the head of the freelist is overwritten too early.
DeallocateEarly(p) ==
  /\ retry = <<>> /\ p \notin dead
  /\ uid[p] \in DOMAIN vec["proxy"] /\ vec["proxy"][uid[p]] = p
  /\ vec' = [vec EXCEPT !["proxy"][0] = uid[p], !["proxy"][uid[p]] = uid[p]]
  /\ dead' = dead \cup {p}
  /\ UNCHANGED <<uid, retry, sent>>

\* deallocate-proxy-uid: all counts are back and nothing points to the proxy.
Deallocate(p) ==
  /\ retry = <<>> /\ p \notin dead
  /\ uid[p] \in DOMAIN vec["proxy"] /\ vec["proxy"][uid[p]] = p
  /\ vec' = [vec EXCEPT !["proxy"][uid[p]] = vec["proxy"][0], !["proxy"][0] = uid[p]]
  /\ dead' = dead \cup {p}
  /\ UNCHANGED <<uid, retry, sent>>

Next ==
  \/ \E xs \in Messages \cup {retry} :
       \/ LoseSpace(xs) \/ CannotExtend(xs) \/ CannotExtendProxies(xs)
       \/ CannotReport(xs) \/ Encode(xs)
  \/ \E p \in Proxy : Deallocate(p)

Spec == Init /\ [][Next]_vars

-----------------------------------------------------------------------------
(* Properties.                                                             *)

\* The shape of every variable; the first slots keep their special use.
TypeOK ==
  /\ \A k \in Kind :
       /\ DOMAIN vec[k] = 0 .. Length(vec[k]) - 1
       /\ vec[k][0] \in 1 .. MaxUid
       /\ \A i \in DOMAIN vec[k] : vec[k][i] \in Nat \cup Thing \cup {Self, Junk}
  /\ vec["decode"][1] = Self
  /\ uid \in [Thing -> Nat]
  /\ retry \in Messages \cup {<<>>}
  /\ dead \subseteq Proxy

\* A uid means one thing: no two things in use ever have the same one, however
\* often encodings fail halfway and whatever was freed between.
UidsDistinct ==
  \A x, y \in Thing \ dead :
    KindOf(x) = KindOf(y) /\ uid[x] = uid[y] /\ uid[x] # NoUid => x = y

\* make-uid-reply looks a uid up in the decode vector when another address space
\* comes back with it: every uid of an object that was sent is still there.
SentObjectsResolve ==
  \A s \in sent : s[1] \in Object =>
    s[2] \in DOMAIN vec["decode"] /\ vec["decode"][s[2]] = s[1]

\* The freelist is a list of free slots: no two slots link to the same one, and a
\* link never leads to a slot in use, nor back to the head.
FreeListSound ==
  \A k \in Kind :
    LET links == {i \in DOMAIN vec[k] : vec[k][i] \in Nat} IN
    /\ \A i, j \in links : vec[k][i] = vec[k][j] => i = j
    /\ \A i \in links : vec[k][i] \in DOMAIN vec[k] => vec[k][i] \in links \ {0}

\* A thing that was sent keeps its uid: a failing encoding takes back only uids
\* that no message has carried (drop-new-ids!).
SentUidsStable == [][\A s \in sent : uid'[s[1]] = s[2]]_vars

\* transmit.scm:280-282: the old contents and the new objects are copied into a new
\* vector, and "any unused slots" are linked into a freelist: none is left over.
SlotsFilled == \A k \in Kind : \A i \in DOMAIN vec[k] : vec[k][i] # Junk
================================================================================
