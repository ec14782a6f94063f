-------------------------- MODULE DecodeVectorsProofs --------------------------
(***************************************************************************)
(* Proofs about the uids of DecodeVectors: whatever is encoded, fails to    *)
(* be encoded and is freed, uids name one thing each, the objects that were *)
(* sent are found under their uids, and the freelists stay sound.           *)
(*                                                                         *)
(* The invariant speaks of one kind of things at a time: of its vector V,   *)
(* of the new things H that wait in the hotel, and of the uids u.  Between  *)
(* two steps the hotels are empty; within a step the same facts hold after  *)
(* every thing of the message, by induction over the message.               *)
(***************************************************************************)
EXTENDS DecodeVectors, SetInduction, FiniteSetTheorems

Links(V) == {i \in DOMAIN V : V[i] \in Nat}

\* The links of V form a list that leaves V at most once.
SlotsSound(V) ==
  /\ Length(V) \in Nat /\ DOMAIN V = 0 .. Length(V) - 1
  /\ 0 \in Links(V)
  /\ \A i \in DOMAIN V : V[i] \in Nat \cup Thing \cup {Self, Junk}
  /\ \A i \in Links(V) : V[i] >= 1 /\ (V[i] < Length(V) => V[i] \in Links(V))
  /\ \A i, j \in Links(V) : V[i] = V[j] => i = j
  /\ \A i, j \in Links(V) : V[i] >= Length(V) /\ V[j] >= Length(V) => i = j

\* The things of kind k that have a uid.
Named(k, u) == {x \in Thing \ dead : KindOf(x) = k /\ u[x] # NoUid}

\* The things in the hotel have the last uids that were given out.
HotelSound(k, V, H, u) ==
  /\ H \in Seq(Thing)
  /\ \A j \in 1 .. Len(H) :
       H[j] \in Named(k, u) /\ u[H[j]] = V[0] - Len(H) + j - 1 /\ u[H[j]] >= Length(V)

\* A thing is in the slot of its uid, if that slot exists.  A proxy that kept its
\* uid when there was no room for it is not: its slot is never filled, or beyond
\* V, where it is passed by the link that leads there.
SlotSound(x, V, H, u) ==
  /\ u[x] < Length(V) => V[u[x]] = x \/ (x \in Proxy /\ V[u[x]] = Junk)
  /\ u[x] >= Length(V) => \A i \in Links(V) : V[i] >= Length(V) => u[x] < V[i]
  /\ x \in Object \ ThingsIn(H) => u[x] < Length(V)

ThingsSound(k, V, H, u) ==
  /\ HotelSound(k, V, H, u)
  /\ \A x \in Named(k, u) : SlotSound(x, V, H, u)
  /\ \A x, y \in Named(k, u) : u[x] = u[y] => x = y

\* What holds between two steps.
DInv ==
  /\ vec = [k \in Kind |-> vec[k]]
  /\ uid \in [Thing -> Nat]
  /\ retry \in Messages \cup {<<>>}
  /\ dead \subseteq Proxy
  /\ \A k \in Kind : SlotsSound(vec[k]) /\ ThingsSound(k, vec[k], <<>>, uid)
  /\ \A s \in sent : s[1] \in Thing /\ s[2] # NoUid /\ uid[s[1]] = s[2]

\* What holds of the vectors, uids and hotels r while a message is encoded, when
\* the hotels of the kinds K are still to be moved into the vectors.  No thing that
\* had a uid before gets another one, or is in a hotel.
RInv(r, K) ==
  /\ r = [vec |-> r.vec, uid |-> r.uid, hotel |-> r.hotel]
  /\ r.vec = [k \in Kind |-> r.vec[k]] /\ r.hotel = [k \in Kind |-> r.hotel[k]]
  /\ r.uid \in [Thing -> Nat]
  /\ \A k \in Kind : SlotsSound(r.vec[k])
  /\ \A k \in K : ThingsSound(k, r.vec[k], r.hotel[k], r.uid)
  /\ \A k \in Kind \ K : ThingsSound(k, r.vec[k], <<>>, r.uid)
  /\ \A x \in Thing : uid[x] # NoUid => r.uid[x] = uid[x]
  /\ \A k \in Kind : \A x \in ThingsIn(r.hotel[k]) : uid[x] = NoUid

-----------------------------------------------------------------------------
(* Vectors.                                                                *)

\* The length of a vector is what its definition says.
LEMMA LengthOf ==
  ASSUME NEW V, NEW n \in Nat, DOMAIN V = 0 .. n - 1
  PROVE  Length(V) = n
<1>1. Cardinality(0 .. n - 1) = n
  BY FS_Interval
<1>2. QED
  BY <1>1 DEF Length

\* Taking the first free slot for x: the list loses its first slot.
LEMMA SlotTaken ==
  ASSUME NEW V, SlotsSound(V), NEW h \in DOMAIN V, h = V[0], NEW x \in Thing,
         NEW W, DOMAIN W = DOMAIN V, W[0] = V[h], W[h] = x,
         \A i \in DOMAIN V \ {0, h} : W[i] = V[i]
  PROVE  /\ SlotsSound(W) /\ Length(W) = Length(V)
         /\ \A i \in Links(W) : \E j \in Links(V) : W[i] = V[j]
<1>1. h \in Links(V) /\ h # 0 /\ V[h] \in Nat /\ h \in Nat /\ 0 \in DOMAIN V /\ 0 \in Links(V)
  BY DEF SlotsSound, Links
<1>2. DOMAIN W = DOMAIN V /\ W[h] = x /\ W[0] = V[h] /\ \A i \in DOMAIN V \ {0, h} : W[i] = V[i]
  OBVIOUS
<1>3. Length(W) = Length(V) /\ x \notin Nat
  BY <1>2, DecodeVectorsAssumption DEF Length, Thing
<1>4. Links(W) = Links(V) \ {h}
  BY <1>1, <1>2, <1>3 DEF Links, SlotsSound
<1>5. \A i \in Links(W) : i # 0 => W[i] = V[i]
  BY <1>2, <1>4 DEF Links
<1>6. \A i, j \in Links(V) : V[i] = V[j] => i = j
  BY DEF SlotsSound
<1>7. \A i \in Links(V) : V[i] \in Nat /\ V[i] >= 1 /\ (V[i] < Length(V) => V[i] \in Links(V))
  BY DEF SlotsSound, Links
<1>8. \A i, j \in Links(V) : V[i] >= Length(V) /\ V[j] >= Length(V) => i = j
  BY DEF SlotsSound
<1>9. \A i \in Links(W) : W[i] # h
  BY <1>1, <1>2, <1>4, <1>5, <1>6
<1>10. SlotsSound(W)
  <2>1. Length(W) \in Nat /\ DOMAIN W = 0 .. Length(W) - 1 /\ 0 \in Links(W)
    <3>1. Length(V) \in Nat /\ DOMAIN V = 0 .. Length(V) - 1
      BY DEF SlotsSound
    <3>2. 0 \in Links(W)
      BY <1>1, <1>4
    <3>3. QED
      BY <3>1, <3>2, <1>2, <1>3
  <2>2. \A i \in DOMAIN W : W[i] \in Nat \cup Thing \cup {Self, Junk}
    BY <1>1, <1>2 DEF SlotsSound
  <2>3. \A i \in Links(W) : W[i] >= 1 /\ (W[i] < Length(W) => W[i] \in Links(W))
    <3> SUFFICES ASSUME NEW i \in Links(W)
                 PROVE  W[i] >= 1 /\ (W[i] < Length(W) => W[i] \in Links(W))
      OBVIOUS
    <3>1. PICK j \in Links(V) : W[i] = V[j]
      BY <1>1, <1>2, <1>4, <1>5
    <3>2. QED
      BY <3>1, <1>3, <1>4, <1>7, <1>9
  <2>4. \A i, j \in Links(W) : W[i] = W[j] => i = j
    <3>1. \A i \in Links(W) : i \in Links(V) /\ i # h
      BY <1>4
    <3>2. \A j \in Links(W) : W[0] = W[j] => j = 0
      BY <1>1, <1>2, <3>1, <1>5, <1>6
    <3>3. \A i, j \in Links(W) \ {0} : W[i] = W[j] => i = j
      BY <3>1, <1>5, <1>6
    <3>4. QED
      BY <3>2, <3>3
  <2>5. \A i, j \in Links(W) : W[i] >= Length(W) /\ W[j] >= Length(W) => i = j
    BY <1>1, <1>2, <1>3, <1>4, <1>5, <1>8
  <2>6. QED
    BY <2>1, <2>2, <2>3, <2>4, <2>5 DEF SlotsSound
<1>11. QED
  BY <1>1, <1>2, <1>3, <1>4, <1>5, <1>10

\* Giving out a uid past the end.
LEMMA UidPastEnd ==
  ASSUME NEW V, SlotsSound(V), V[0] \notin DOMAIN V,
         NEW W, DOMAIN W = DOMAIN V, W[0] = V[0] + 1,
         \A i \in DOMAIN V \ {0} : W[i] = V[i]
  PROVE  /\ SlotsSound(W) /\ Length(W) = Length(V)
         /\ \A i \in Links(W) : W[i] >= Length(W) => i = 0
<1>1. V[0] \in Nat /\ V[0] >= Length(V) /\ Length(V) \in Nat /\ 0 \in DOMAIN V
  BY DEF SlotsSound, Links
<1>2. DOMAIN W = DOMAIN V /\ W[0] = V[0] + 1 /\ \A i \in DOMAIN V \ {0} : W[i] = V[i]
  OBVIOUS
<1>3. Length(W) = Length(V) /\ Links(W) = Links(V)
  BY <1>1, <1>2 DEF Length, Links
<1>4. \A i \in Links(V) \ {0} : V[i] < Length(V) /\ W[i] = V[i] /\ i \in DOMAIN V
  BY <1>1, <1>2 DEF SlotsSound, Links
<1>5. SlotsSound(W)
  <2>1. \A i \in DOMAIN W : W[i] \in Nat \cup Thing \cup {Self, Junk}
    BY <1>1, <1>2 DEF SlotsSound
  <2>2. \A i \in Links(W) : W[i] >= 1 /\ (W[i] < Length(W) => W[i] \in Links(W))
    BY <1>1, <1>2, <1>3, <1>4 DEF SlotsSound
  <2>3. \A i, j \in Links(W) : W[i] = W[j] => i = j
    BY <1>1, <1>2, <1>3, <1>4 DEF SlotsSound
  <2>4. \A i, j \in Links(W) : W[i] >= Length(W) /\ W[j] >= Length(W) => i = j
    BY <1>1, <1>2, <1>3, <1>4 DEF SlotsSound
  <2>5. QED
    BY <1>1, <1>2, <1>3, <2>1, <2>2, <2>3, <2>4 DEF SlotsSound, Links
<1>6. QED
  BY <1>1, <1>2, <1>3, <1>4, <1>5 DEF Links, SlotsSound

-----------------------------------------------------------------------------
(* One thing gets a uid.                                                   *)

\* What appending does to the things of a sequence.
LEMMA ThingsAppended ==
  ASSUME NEW H \in Seq(Thing), NEW x \in Thing
  PROVE  ThingsIn(Append(H, x)) = ThingsIn(H) \cup {x}
<1> DEFINE G == Append(H, x)
<1>1. /\ DOMAIN G = 1 .. Len(H) + 1 /\ DOMAIN H = 1 .. Len(H) /\ Len(H) \in Nat
      /\ G[Len(H) + 1] = x /\ \A i \in 1 .. Len(H) : G[i] = H[i]
  OBVIOUS
<1> HIDE DEF G
<1>2. \A i \in DOMAIN H : i \in DOMAIN G /\ G[i] = H[i]
  BY <1>1
<1>3. Len(H) + 1 \in DOMAIN G /\ \A i \in DOMAIN G : i \in DOMAIN H \/ i = Len(H) + 1
  BY <1>1
<1>4. ThingsIn(G) = ThingsIn(H) \cup {x}
  BY <1>1, <1>2, <1>3 DEF ThingsIn
<1>5. QED
  BY <1>4 DEF G

\* A thing that already has a uid is named, one that has none is not.
LEMMA OneNamed ==
  ASSUME NEW u \in [Thing -> Nat], NEW x \in Thing \ dead, NEW n \in Nat \ {0}, NEW k \in Kind,
         NEW w \in [Thing -> Nat], w[x] = n, \A y \in Thing \ {x} : w[y] = u[y]
  PROVE  /\ KindOf(x) = k => Named(k, w) = Named(k, u) \cup {x}
         /\ KindOf(x) # k => Named(k, w) = Named(k, u)
BY DEF Named, NoUid

\* Facts about the things of a kind carry over to uids that agree on them.
LEMMA OtherKind ==
  ASSUME NEW k \in Kind, NEW V, NEW H, NEW u, NEW w, ThingsSound(k, V, H, u),
         Named(k, w) = Named(k, u), \A x \in Named(k, u) : w[x] = u[x]
  PROVE  ThingsSound(k, V, H, w)
<1>1. HotelSound(k, V, H, w)
  BY DEF ThingsSound, HotelSound
<1>2. \A x \in Named(k, w) : SlotSound(x, V, H, w)
  BY DEF ThingsSound, SlotSound
<1>3. \A x, y \in Named(k, w) : w[x] = w[y] => x = y
  BY DEF ThingsSound
<1>4. QED
  BY <1>1, <1>2, <1>3 DEF ThingsSound

\* Things may lose their uids, and those of the hotel that must be in a slot do.
LEMMA SomeForgotten ==
  ASSUME NEW k \in Kind, NEW V, NEW H, NEW u \in [Thing -> Nat], NEW w \in [Thing -> Nat],
         ThingsSound(k, V, H, u), \A x \in Thing : w[x] \in {u[x], NoUid},
         \A x \in ThingsIn(H) \cap Object : w[x] = NoUid
  PROVE  ThingsSound(k, V, <<>>, w)
<1>1. \A x \in Named(k, w) : x \in Named(k, u) /\ w[x] = u[x] /\ x \notin ThingsIn(H) \cap Object
  BY DEF Named
<1>2. HotelSound(k, V, <<>>, w)
  BY DEF HotelSound
<1>3. \A x \in Named(k, w) : SlotSound(x, V, <<>>, w)
  <2> SUFFICES ASSUME NEW x \in Named(k, w)
               PROVE  SlotSound(x, V, <<>>, w)
    OBVIOUS
  <2>1. SlotSound(x, V, H, u) /\ w[x] = u[x] /\ x \notin ThingsIn(H) \cap Object
    BY <1>1 DEF ThingsSound
  <2>2. QED
    BY <2>1 DEF SlotSound
<1>4. \A x, y \in Named(k, w) : w[x] = w[y] => x = y
  BY <1>1 DEF ThingsSound
<1>5. QED
  BY <1>2, <1>3, <1>4 DEF ThingsSound

\* When the next uid is not past the end, the hotel is empty.
LEMMA HotelEmpty ==
  ASSUME NEW k \in Kind, NEW V, NEW H, NEW u, SlotsSound(V), ThingsSound(k, V, H, u),
         V[0] <= Length(V)
  PROVE  H = <<>>
<1>1. H \in Seq(Thing) /\ Len(H) \in Nat
  BY DEF ThingsSound, HotelSound
<1>2. SUFFICES ASSUME Len(H) # 0 PROVE FALSE
  BY <1>1
<1>3. u[H[1]] = V[0] - Len(H) + 1 - 1 /\ u[H[1]] >= Length(V)
  BY <1>1, <1>2 DEF ThingsSound, HotelSound
<1>4. V[0] \in Nat /\ Length(V) \in Nat
  BY DEF SlotsSound, Links
<1>5. QED
  BY <1>1, <1>2, <1>3, <1>4

\* real-next-id when there is a free slot.
LEMMA FreeSlotGiven ==
  ASSUME NEW k \in Kind, NEW V, NEW H, NEW u \in [Thing -> Nat], SlotsSound(V),
         ThingsSound(k, V, H, u), NEW h \in DOMAIN V, h = V[0],
         NEW x \in Thing \ dead, KindOf(x) = k, u[x] = NoUid,
         NEW W, DOMAIN W = DOMAIN V, W[0] = V[h], W[h] = x,
         \A i \in DOMAIN V \ {0, h} : W[i] = V[i],
         NEW w \in [Thing -> Nat], w[x] = h, \A y \in Thing \ {x} : w[y] = u[y]
  PROVE  SlotsSound(W) /\ ThingsSound(k, W, H, w)
<1>1. h \in Nat \ {0} /\ h < Length(V) /\ Length(V) \in Nat /\ V[h] \in Nat /\ h \in DOMAIN V
  BY DEF SlotsSound, Links
<1>2. /\ SlotsSound(W) /\ Length(W) = Length(V)
      /\ W[h] = x /\ \A i \in DOMAIN V \ {0, h} : W[i] = V[i]
      /\ \A i \in Links(W) : \E j \in Links(V) : W[i] = V[j]
  BY SlotTaken
<1>3. H = <<>>
  BY <1>1, HotelEmpty
<1>4. /\ w \in [Thing -> Nat] /\ w[x] = h /\ \A y \in Thing \ {x} : w[y] = u[y]
      /\ Named(k, w) = Named(k, u) \cup {x}
  BY <1>1, OneNamed
<1>5. ASSUME NEW y \in Named(k, w), y # x
      PROVE  SlotSound(y, W, <<>>, w) /\ w[y] # h
  <2>1. y \in Named(k, u) /\ y \in Thing /\ u[y] \in Nat /\ u[y] # 0 /\ w[y] = u[y]
    BY <1>4, <1>5 DEF Named, NoUid
  <2>2. /\ u[y] < Length(V) => V[u[y]] = y \/ (y \in Proxy /\ V[u[y]] = Junk)
        /\ u[y] >= Length(V) => \A i \in Links(V) : V[i] >= Length(V) => u[y] < V[i]
        /\ y \in Object => u[y] < Length(V)
    BY <2>1, <1>3 DEF ThingsSound, SlotSound, ThingsIn
  <2>3. y \notin Nat /\ Junk \notin Nat
    BY <2>1, DecodeVectorsAssumption DEF Thing
  <2>4. u[y] # h
    BY <1>1, <2>1, <2>2, <2>3
  <2>5. u[y] < Length(V) => u[y] \in DOMAIN V \ {0, h}
    BY <2>1, <2>4, <1>1 DEF SlotsSound
  <2>6. u[y] >= Length(V) => \A i \in Links(W) : W[i] >= Length(V) => u[y] < W[i]
    BY <1>2, <2>2
  <2>7. QED
    BY <1>2, <2>1, <2>2, <2>4, <2>5, <2>6 DEF SlotSound
<1>6. SlotSound(x, W, <<>>, w)
  <2>1. w[x] < Length(W) /\ ~(w[x] >= Length(W)) /\ W[w[x]] = x
    BY <1>1, <1>2, <1>4
  <2>2. QED
    BY <2>1 DEF SlotSound
<1>7. HotelSound(k, W, <<>>, w)
  BY DEF HotelSound
<1>8. \A y, z \in Named(k, w) : w[y] = w[z] => y = z
  <2>1. \A y, z \in Named(k, u) : u[y] = u[z] => y = z
    BY DEF ThingsSound
  <2>2. \A y \in Named(k, w) : y = x \/ (y \in Named(k, u) /\ y # x /\ w[y] = u[y])
    BY <1>4 DEF Named
  <2>3. QED
    BY <1>4, <1>5, <2>1, <2>2
<1>9. QED
  BY <1>2, <1>3, <1>5, <1>6, <1>7, <1>8 DEF ThingsSound

\* real-next-id when there is none: the thing goes to the hotel.
LEMMA LateSlotGiven ==
  ASSUME NEW k \in Kind, NEW V, NEW H, NEW u \in [Thing -> Nat], SlotsSound(V),
         ThingsSound(k, V, H, u), V[0] \notin DOMAIN V,
         NEW x \in Thing \ dead, KindOf(x) = k, u[x] = NoUid,
         NEW h, h = V[0], NEW W, DOMAIN W = DOMAIN V, W[0] = h + 1,
         \A i \in DOMAIN V \ {0} : W[i] = V[i],
         NEW w \in [Thing -> Nat], w[x] = h, \A y \in Thing \ {x} : w[y] = u[y]
  PROVE  SlotsSound(W) /\ ThingsSound(k, W, Append(H, x), w)
<1> DEFINE G == Append(H, x)
<1>1. h \in Nat \ {0} /\ h >= Length(V) /\ Length(V) \in Nat /\ 0 \in Links(V)
  BY DEF SlotsSound, Links
<1>2. /\ SlotsSound(W) /\ Length(W) = Length(V)
      /\ W[0] = h + 1 /\ \A i \in DOMAIN V \ {0} : W[i] = V[i]
      /\ \A i \in Links(W) : W[i] >= Length(W) => i = 0
  BY UidPastEnd
<1>3. /\ w \in [Thing -> Nat] /\ w[x] = h /\ \A y \in Thing \ {x} : w[y] = u[y]
      /\ Named(k, w) = Named(k, u) \cup {x} /\ x \notin Named(k, u)
  BY <1>1, OneNamed DEF Named
<1>4. H \in Seq(Thing) /\ Len(H) \in Nat
  BY DEF ThingsSound, HotelSound
<1>5. /\ G \in Seq(Thing) /\ Len(G) = Len(H) + 1 /\ G[Len(G)] = x
      /\ \A j \in 1 .. Len(H) : G[j] = H[j]
  BY <1>4
<1>6. ThingsIn(G) = ThingsIn(H) \cup {x}
  BY <1>4, ThingsAppended
<1>7. HotelSound(k, W, G, w)
  <2> SUFFICES ASSUME NEW j \in 1 .. Len(G)
               PROVE  G[j] \in Named(k, w) /\ w[G[j]] = W[0] - Len(G) + j - 1 /\ w[G[j]] >= Length(W)
    BY <1>5 DEF HotelSound
  <2>1. CASE j = Len(G)
    <3>1. G[j] = x /\ x \in Named(k, w) /\ w[x] = h
      BY <2>1, <1>3, <1>5
    <3>2. W[0] - Len(G) + j - 1 = h /\ h >= Length(W)
      BY <2>1, <1>1, <1>2, <1>4, <1>5
    <3>3. QED
      BY <3>1, <3>2
  <2>2. CASE j # Len(G)
    <3>1. j \in 1 .. Len(H) /\ G[j] = H[j]
      BY <2>2, <1>4, <1>5
    <3>2. H[j] \in Named(k, u) /\ u[H[j]] = h - Len(H) + j - 1 /\ u[H[j]] >= Length(V)
      BY <3>1 DEF ThingsSound, HotelSound
    <3>3. H[j] \in Named(k, w) /\ w[H[j]] = u[H[j]]
      BY <3>2, <1>3 DEF Named
    <3>4. W[0] - Len(G) = h - Len(H)
      BY <1>1, <1>2, <1>4, <1>5
    <3>5. QED
      BY <3>1, <3>2, <3>3, <3>4, <1>2
  <2>3. QED
    BY <2>1, <2>2
<1> HIDE DEF G
<1>8. ASSUME NEW y \in Named(k, w), y # x
      PROVE  SlotSound(y, W, G, w) /\ w[y] # h
  <2>1. y \in Named(k, u) /\ y \in Thing /\ u[y] \in Nat /\ u[y] # 0 /\ w[y] = u[y]
    BY <1>3, <1>8 DEF Named, NoUid
  <2>2. /\ u[y] < Length(V) => V[u[y]] = y \/ (y \in Proxy /\ V[u[y]] = Junk)
        /\ u[y] >= Length(V) => u[y] < h
        /\ y \in Object \ ThingsIn(H) => u[y] < Length(V)
    BY <2>1, <1>1 DEF ThingsSound, SlotSound
  <2>3. u[y] < Length(V) => u[y] \in DOMAIN V \ {0}
    BY <2>1, <1>1 DEF SlotsSound
  <2>4. u[y] # h
    BY <2>1, <2>2, <1>1
  <2>5. u[y] >= Length(V) => \A i \in Links(W) : W[i] >= Length(V) => u[y] < W[i]
    <3>1. \A i \in Links(W) : W[i] >= Length(V) => W[i] = h + 1
      BY <1>2
    <3>2. QED
      BY <3>1, <2>1, <2>2, <1>1
  <2>6. QED
    BY <1>2, <1>6, <2>1, <2>2, <2>3, <2>4, <2>5 DEF SlotSound
<1>9. SlotSound(x, W, G, w)
  <2>1. \A i \in Links(W) : W[i] >= Length(W) => W[i] = h + 1
    BY <1>2
  <2>2. \A i \in Links(W) : W[i] >= Length(W) => h < W[i]
    BY <2>1, <1>1
  <2>3. w[x] = h /\ ~(w[x] < Length(W)) /\ x \in ThingsIn(G)
    BY <1>1, <1>2, <1>3, <1>6
  <2>4. QED
    BY <2>2, <2>3 DEF SlotSound
<1>10. \A y, z \in Named(k, w) : w[y] = w[z] => y = z
  <2>1. \A y, z \in Named(k, u) : u[y] = u[z] => y = z
    BY DEF ThingsSound
  <2>2. \A y \in Named(k, w) : y = x \/ (y \in Named(k, u) /\ y # x /\ w[y] = u[y])
    BY <1>3 DEF Named
  <2>3. QED
    BY <1>3, <1>8, <2>1, <2>2
<1>11. QED
  BY <1>2, <1>7, <1>8, <1>9, <1>10 DEF ThingsSound, G

-----------------------------------------------------------------------------
(* Larger vectors and freed slots.                                         *)

\* setup-new-decode-vector!: the list goes on through the new slots.
LEMMA SlotsAdded ==
  ASSUME NEW V, SlotsSound(V), V[0] > Length(V), NEW m \in Nat, m >= V[0],
         NEW W, DOMAIN W = 0 .. m - 1, \A i \in DOMAIN V : W[i] = V[i],
         \A i \in V[0] .. m - 1 : W[i] = i + 1,
         \A i \in Length(V) .. V[0] - 1 : W[i] \in Thing \cup {Junk}
  PROVE  SlotsSound(W) /\ Length(W) = m
<1> DEFINE h == V[0]
<1> DEFINE n == Length(V)
<1>1. /\ h \in Nat /\ n \in Nat /\ n < h /\ h <= m /\ Length(W) = m
      /\ DOMAIN V = 0 .. n - 1 /\ 0 \in DOMAIN V /\ 0 \in Links(V)
  BY LengthOf DEF SlotsSound, Links
<1>2. DOMAIN V \subseteq DOMAIN W /\ \A i \in DOMAIN W : i \in DOMAIN V \/ i \in n .. h - 1 \/ i \in h .. m - 1
  BY <1>1
<1>3. \A i \in n .. h - 1 : W[i] \notin Nat
  BY DecodeVectorsAssumption DEF Thing
<1>4. \A i \in Links(W) : (i \in Links(V) /\ W[i] = V[i]) \/ (i \in h .. m - 1 /\ W[i] = i + 1)
  BY <1>1, <1>2, <1>3 DEF Links
<1>5. /\ \A i \in Links(V) : i \in Links(W)
      /\ \A i \in h .. m - 1 : i \in Links(W)
  BY <1>1, <1>2 DEF Links
<1>6. \A i \in Links(V) \ {0} : V[i] \in Nat /\ V[i] >= 1 /\ V[i] < n /\ V[i] \in Links(V)
  BY <1>1 DEF SlotsSound, Links
<1>7. \A i \in DOMAIN W : W[i] \in Nat \cup Thing \cup {Self, Junk}
  <2>1. \A i \in DOMAIN V : W[i] \in Nat \cup Thing \cup {Self, Junk}
    BY DEF SlotsSound
  <2>2. \A i \in h .. m - 1 : W[i] \in Nat
    BY <1>1
  <2>3. QED
    BY <1>2, <2>1, <2>2
<1> HIDE DEF h, n
<1>8. V[0] = h
  BY DEF h
<1>9. \A i \in Links(W) : W[i] >= 1 /\ (W[i] < m => W[i] \in Links(W))
  <2> SUFFICES ASSUME NEW i \in Links(W)
               PROVE  W[i] >= 1 /\ (W[i] < m => W[i] \in Links(W))
    OBVIOUS
  <2>1. CASE i \in Links(V) /\ i # 0 /\ W[i] = V[i]
    BY <2>1, <1>5, <1>6
  <2>2. CASE i = 0 /\ W[i] = h
    <3>1. h < m => h \in h .. m - 1
      BY <1>1
    <3>2. QED
      BY <2>2, <3>1, <1>1, <1>5
  <2>3. CASE i \in h .. m - 1 /\ W[i] = i + 1
    <3>1. i + 1 < m => i + 1 \in h .. m - 1
      BY <2>3, <1>1
    <3>2. QED
      BY <2>3, <3>1, <1>1, <1>5
  <2>4. QED
    BY <1>4, <1>8, <2>1, <2>2, <2>3
<1>10. \A i \in Links(W) : \/ i \in Links(V) \ {0} /\ W[i] = V[i] /\ W[i] < n /\ W[i] \in Nat
                           \/ i = 0 /\ W[i] = h
                           \/ i \in h .. m - 1 /\ W[i] = i + 1
  BY <1>4, <1>6, <1>8
<1>11. \A i, j \in Links(V) : V[i] = V[j] => i = j
  BY DEF SlotsSound
<1>12. \A i, j \in Links(W) : W[i] = W[j] => i = j
  <2> SUFFICES ASSUME NEW i \in Links(W), NEW j \in Links(W), W[i] = W[j]
               PROVE  i = j
    OBVIOUS
  <2> DEFINE Old(l) == l \in Links(V) \ {0} /\ W[l] = V[l] /\ W[l] < n /\ W[l] \in Nat
  <2> DEFINE Added(l) == l \in h .. m - 1 /\ W[l] = l + 1
  <2>1. CASE Old(i)
    <3>1. ~(j = 0 /\ W[j] = h) /\ ~Added(j)
      BY <2>1, <1>1
    <3>2. Old(j)
      BY <3>1, <1>10
    <3>3. QED
      BY <2>1, <3>2, <1>11
  <2>2. CASE i = 0 /\ W[i] = h
    <3>1. ~Old(j) /\ ~Added(j)
      BY <2>2, <1>1
    <3>2. QED
      BY <2>2, <3>1, <1>10
  <2>3. CASE Added(i)
    <3>1. ~Old(j) /\ ~(j = 0 /\ W[j] = h)
      BY <2>3, <1>1
    <3>2. Added(j)
      BY <3>1, <1>10
    <3>a. i \in Int /\ j \in Int
      BY <2>3, <3>2, <1>1
    <3>b. W[i] = i + 1 /\ W[j] = j + 1
      BY <2>3, <3>2
    <3>3. i \in Int /\ j \in Int /\ i + 1 = j + 1
      BY <3>a, <3>b
    <3>4. QED
      BY <3>3
  <2>4. QED
    BY <1>10, <2>1, <2>2, <2>3
<1>13. \A i, j \in Links(W) : W[i] >= m /\ W[j] >= m => i = j
  <2>1. \A i \in Links(W) : W[i] >= m => (i = 0 /\ h = m) \/ (i = m - 1 /\ h < m)
    <3> SUFFICES ASSUME NEW i \in Links(W), W[i] >= m
                 PROVE  (i = 0 /\ h = m) \/ (i = m - 1 /\ h < m)
      OBVIOUS
    <3>1. ~(i \in Links(V) \ {0} /\ W[i] = V[i] /\ W[i] < n /\ W[i] \in Nat)
      BY <1>1
    <3>2. CASE i = 0 /\ W[i] = h
      BY <3>2, <1>1
    <3>3. CASE i \in h .. m - 1 /\ W[i] = i + 1
      BY <3>3, <1>1
    <3>4. QED
      BY <3>1, <3>2, <3>3, <1>10
  <2>2. QED
    BY <2>1, <1>1
<1>14. QED
  BY <1>1, <1>5, <1>7, <1>9, <1>12, <1>13 DEF SlotsSound

\* After that, every new thing is in the slot of its uid.
LEMMA HotelMovedIn ==
  ASSUME NEW k \in Kind, NEW V, NEW H, NEW u \in [Thing -> Nat], SlotsSound(V),
         ThingsSound(k, V, H, u), V[0] > Length(V), NEW m \in Nat, m >= V[0],
         NEW W, DOMAIN W = 0 .. m - 1, \A i \in DOMAIN V : W[i] = V[i],
         \A i \in V[0] .. m - 1 : W[i] = i + 1,
         \A j \in 1 .. Len(H) : W[V[0] - Len(H) + j - 1] = H[j],
         \A i \in Length(V) .. V[0] - 1 :
           W[i] = Junk \/ \E j \in 1 .. Len(H) : i = V[0] - Len(H) + j - 1 /\ W[i] = H[j]
  PROVE  SlotsSound(W) /\ ThingsSound(k, W, <<>>, u)
<1> DEFINE n == Length(V)
<1> DEFINE h == V[0]
<1>1. /\ h \in Nat /\ n \in Nat /\ n < h /\ h <= m
      /\ DOMAIN V = 0 .. n - 1 /\ 0 \in Links(V)
  BY DEF SlotsSound, Links
<1>2. /\ DOMAIN H = 1 .. Len(H)
      /\ \A j \in 1 .. Len(H) : H[j] \in Thing /\ H[j] \in Named(k, u) /\ u[H[j]] = h - Len(H) + j - 1
  BY DEF ThingsSound, HotelSound
<1>3. SlotsSound(W) /\ Length(W) = m
  <2>1. \A i \in Length(V) .. V[0] - 1 : W[i] \in Thing \cup {Junk}
    BY <1>2
  <2>2. QED
    BY <2>1, SlotsAdded
<1>4. \A j \in 1 .. Len(H) : W[u[H[j]]] = H[j]
  BY <1>2
<1>5. \A i \in n .. h - 1 : W[i] = Junk \/ \E j \in 1 .. Len(H) : i = u[H[j]] /\ W[i] = H[j]
  BY <1>2
<1>6. ASSUME NEW x \in Named(k, u)
      PROVE  SlotSound(x, W, <<>>, u)
  <2>1. x \in Thing /\ u[x] \in Nat /\ SlotSound(x, V, H, u)
    BY DEF Named, ThingsSound
  <2>2. CASE u[x] < n
    <3>1. u[x] \in DOMAIN V /\ u[x] < m
      BY <1>1, <2>1, <2>2
    <3>2. QED
      BY <3>1, <2>1, <2>2, <1>1, <1>3 DEF SlotSound
  <2>3. CASE ~(u[x] < n)
    <3>1. u[x] < h /\ u[x] \in n .. h - 1
      <4>1. u[x] >= n => \A i \in Links(V) : V[i] >= n => u[x] < V[i]
        BY <2>1 DEF SlotSound
      <4>2. h >= n /\ u[x] >= n
        BY <2>1, <2>3, <1>1
      <4>3. u[x] < h
        BY <4>1, <4>2, <1>1
      <4>4. QED
        BY <4>2, <4>3, <2>1, <1>1
    <3>2. x \in ThingsIn(H) => W[u[x]] = x
      BY <1>2, <1>4 DEF ThingsIn
    <3>3. x \notin ThingsIn(H) => x \in Proxy
      BY <2>1, <2>3 DEF SlotSound, Thing
    <3>4. W[u[x]] # Junk => x \in ThingsIn(H)
      <4> SUFFICES ASSUME W[u[x]] # Junk
                   PROVE  x \in ThingsIn(H)
        OBVIOUS
      <4>1. PICK j \in 1 .. Len(H) : u[x] = u[H[j]]
        BY <3>1, <1>5
      <4>2. H[j] = x
        BY <4>1, <1>2 DEF ThingsSound
      <4>3. QED
        BY <4>2, <1>2 DEF ThingsIn
    <3>5. u[x] < m
      BY <3>1, <1>1, <2>1
    <3>6. QED
      BY <3>2, <3>3, <3>4, <3>5, <1>3, <2>1, <1>1 DEF SlotSound
  <2>4. QED
    BY <2>2, <2>3
<1>7. HotelSound(k, W, <<>>, u)
  BY DEF HotelSound
<1>8. QED
  BY <1>3, <1>6, <1>7 DEF ThingsSound

\* deallocate-proxy-uid: a slot that is not on the list becomes its head.
LEMMA SlotFreed ==
  ASSUME NEW V, SlotsSound(V), NEW n \in DOMAIN V, V[n] \notin Nat,
         NEW W, DOMAIN W = DOMAIN V, W[0] = n, W[n] = V[0],
         \A i \in DOMAIN V \ {0, n} : W[i] = V[i]
  PROVE  /\ SlotsSound(W) /\ Length(W) = Length(V)
         /\ \A i \in Links(W) : i # 0 => \E j \in Links(V) : W[i] = V[j]
<1>1. /\ Length(V) \in Nat /\ DOMAIN V = 0 .. Length(V) - 1 /\ 0 \in Links(V) /\ 0 \in DOMAIN V
      /\ V[0] \in Nat /\ n # 0 /\ n \in Nat /\ n >= 1 /\ n < Length(V)
  BY DEF SlotsSound, Links
<1>2. Length(W) = Length(V)
  BY DEF Length
<1>3. Links(W) = Links(V) \cup {n} /\ n \notin Links(V)
  BY <1>1 DEF Links
<1>4. \A i \in Links(V) \ {0} : W[i] = V[i]
  BY <1>3 DEF Links
<1>5. \A i \in Links(V) : V[i] # n /\ V[i] \in Nat /\ V[i] >= 1 /\ (V[i] < Length(V) => V[i] \in Links(V))
  BY <1>1, <1>3 DEF SlotsSound, Links
<1>6. \A i, j \in Links(V) : V[i] = V[j] => i = j
  BY DEF SlotsSound
<1>7. \A i, j \in Links(V) : V[i] >= Length(V) /\ V[j] >= Length(V) => i = j
  BY DEF SlotsSound
<1>8. \A i \in Links(W) : \/ i = 0 /\ W[i] = n
                          \/ i = n /\ W[i] = V[0]
                          \/ i # 0 /\ i # n /\ i \in Links(V) /\ W[i] = V[i]
  BY <1>3, <1>4
<1>9. \A i \in Links(W) : W[i] >= 1 /\ (W[i] < Length(W) => W[i] \in Links(W))
  BY <1>1, <1>2, <1>3, <1>5, <1>8
<1>10. \A i, j \in Links(W) : W[i] = W[j] => i = j
  BY <1>1, <1>5, <1>6, <1>8
<1>11. \A i, j \in Links(W) : W[i] >= Length(W) /\ W[j] >= Length(W) => i = j
  BY <1>1, <1>2, <1>7, <1>8
<1>12. \A i \in DOMAIN W : W[i] \in Nat \cup Thing \cup {Self, Junk}
  BY <1>1 DEF SlotsSound
<1>13. QED
  BY <1>1, <1>2, <1>3, <1>8, <1>9, <1>10, <1>11, <1>12 DEF SlotsSound

-----------------------------------------------------------------------------
(* A message gets its uids.                                                *)

\* What is left to show when the thing x gets a uid: the facts about its own kind.
LEMMA OnlyItsKind ==
  ASSUME NEW r, RInv(r, Kind), NEW x \in Thing \ dead, r.uid[x] = NoUid,
         NEW k, k = KindOf(x), NEW s, s = [vec |-> s.vec, uid |-> s.uid, hotel |-> s.hotel],
         s.vec = [j \in Kind |-> s.vec[j]], s.hotel = [j \in Kind |-> s.hotel[j]],
         s.uid \in [Thing -> Nat], s.uid[x] # NoUid,
         \A y \in Thing \ {x} : s.uid[y] = r.uid[y],
         \A j \in Kind \ {k} : s.vec[j] = r.vec[j] /\ s.hotel[j] = r.hotel[j],
         SlotsSound(s.vec[k]), ThingsSound(k, s.vec[k], s.hotel[k], s.uid),
         ThingsIn(s.hotel[k]) \subseteq ThingsIn(r.hotel[k]) \cup {x}
  PROVE  RInv(s, Kind)
<1>1. \A y \in Thing : uid[y] # NoUid => r.uid[y] = uid[y]
  BY DEF RInv
<1>2. \A y \in Thing : uid[y] # NoUid => s.uid[y] = uid[y]
  BY <1>1
<1>3. \A j \in Kind : \A y \in ThingsIn(s.hotel[j]) : uid[y] = NoUid
  <2>1. uid[x] = NoUid
    BY <1>1
  <2>2. \A j \in Kind : \A y \in ThingsIn(r.hotel[j]) : uid[y] = NoUid
    BY DEF RInv
  <2>3. QED
    BY <2>1, <2>2
<1>4. ASSUME NEW j \in Kind, j # k
      PROVE  SlotsSound(s.vec[j]) /\ ThingsSound(j, s.vec[j], s.hotel[j], s.uid)
  <2>1. SlotsSound(r.vec[j]) /\ ThingsSound(j, r.vec[j], r.hotel[j], r.uid) /\ r.uid \in [Thing -> Nat]
    BY DEF RInv
  <2>2. Named(j, s.uid) = Named(j, r.uid) /\ \A y \in Named(j, r.uid) : s.uid[y] = r.uid[y]
    BY <1>4 DEF Named
  <2>3. ThingsSound(j, r.vec[j], r.hotel[j], s.uid)
    BY <2>1, <2>2, OtherKind
  <2>4. QED
    BY <2>1, <2>3, <1>4
<1>5. \A j \in Kind : SlotsSound(s.vec[j]) /\ ThingsSound(j, s.vec[j], s.hotel[j], s.uid)
  BY <1>4
<1>6. QED
  BY <1>2, <1>3, <1>5 DEF RInv

\* get-uid: the thing has a uid then, and every other uid is what it was.
LEMMA UidGiven ==
  ASSUME NEW r, RInv(r, Kind), NEW x \in Thing \ dead
  PROVE  /\ RInv(GetUid(r, x), Kind)
         /\ GetUid(r, x).uid[x] # NoUid
         /\ \A y \in Thing : r.uid[y] # NoUid => GetUid(r, x).uid[y] = r.uid[y]
<1> DEFINE k == KindOf(x)
<1> DEFINE h == r.vec[k][0]
<1> DEFINE s == GetUid(r, x)
<1>1. /\ k \in Kind /\ SlotsSound(r.vec[k]) /\ ThingsSound(k, r.vec[k], r.hotel[k], r.uid)
      /\ r.uid \in [Thing -> Nat] /\ DOMAIN r.vec = Kind /\ DOMAIN r.hotel = Kind
  BY DEF RInv, KindOf, Kind
<1>2. h \in Nat \ {0} /\ 0 \in DOMAIN r.vec[k]
  BY <1>1 DEF SlotsSound, Links
<1>3. CASE r.uid[x] # NoUid
  BY <1>3 DEF GetUid
<1>4. CASE r.uid[x] = NoUid /\ h \in DOMAIN r.vec[k]
  <2>1. s = [r EXCEPT !.uid[x] = h, !.vec[k][0] = r.vec[k][h], !.vec[k][h] = x]
    BY <1>4 DEF GetUid
  <2>2. /\ s = [vec |-> s.vec, uid |-> s.uid, hotel |-> s.hotel]
        /\ s.hotel = r.hotel
        /\ s.uid = [r.uid EXCEPT ![x] = h]
        /\ s.vec = [[r.vec EXCEPT ![k] = [@ EXCEPT ![0] = r.vec[k][h]]] EXCEPT ![k] = [@ EXCEPT ![h] = x]]
    BY <2>1 DEF RInv
  <2> HIDE DEF s
  <2>3. /\ s.uid \in [Thing -> Nat] /\ s.uid[x] = h /\ s.uid[x] # NoUid
        /\ \A y \in Thing \ {x} : s.uid[y] = r.uid[y]
    BY <1>1, <1>2, <2>2 DEF NoUid
  <2>4. /\ DOMAIN s.vec = Kind
        /\ s.vec[k] = [r.vec[k] EXCEPT ![0] = r.vec[k][h], ![h] = x]
        /\ \A j \in Kind \ {k} : s.vec[j] = r.vec[j]
    BY <1>1, <2>2
  <2>5. /\ DOMAIN s.vec[k] = DOMAIN r.vec[k] /\ s.vec[k][0] = r.vec[k][h] /\ s.vec[k][h] = x
        /\ \A i \in DOMAIN r.vec[k] \ {0, h} : s.vec[k][i] = r.vec[k][i]
    BY <1>2, <1>4, <2>4
  <2>6. s.vec = [j \in Kind |-> s.vec[j]] /\ s.hotel = [j \in Kind |-> s.hotel[j]]
    <3>1. s.vec = [j \in Kind |-> s.vec[j]]
      BY <2>2, <2>4
    <3>2. s.hotel = [j \in Kind |-> s.hotel[j]]
      BY <2>2 DEF RInv
    <3>3. QED
      BY <3>1, <3>2
  <2> HIDE DEF h, k
  <2>7. SlotsSound(s.vec[k]) /\ ThingsSound(k, s.vec[k], r.hotel[k], s.uid)
    <3>1. h = r.vec[k][0] /\ KindOf(x) = k
      BY DEF h, k
    <3>2. QED
      BY <3>1, <1>1, <1>4, <2>3, <2>5, FreeSlotGiven
  <2>8. RInv(s, Kind)
    BY <1>1, <1>4, <2>2, <2>3, <2>4, <2>6, <2>7, OnlyItsKind DEF k
  <2>9. \A y \in Thing : r.uid[y] # NoUid => s.uid[y] = r.uid[y]
    BY <1>4, <2>3
  <2>10. QED
    BY <2>3, <2>8, <2>9 DEF s
<1>5. CASE r.uid[x] = NoUid /\ h \notin DOMAIN r.vec[k]
  <2>1. s = [r EXCEPT !.uid[x] = h, !.vec[k][0] = h + 1, !.hotel[k] = Append(@, x)]
    BY <1>5 DEF GetUid
  <2>2. /\ s = [vec |-> s.vec, uid |-> s.uid, hotel |-> s.hotel]
        /\ s.hotel = [r.hotel EXCEPT ![k] = Append(@, x)]
        /\ s.uid = [r.uid EXCEPT ![x] = h]
        /\ s.vec = [r.vec EXCEPT ![k] = [@ EXCEPT ![0] = h + 1]]
    BY <2>1 DEF RInv
  <2> HIDE DEF s
  <2>3. /\ s.uid \in [Thing -> Nat] /\ s.uid[x] = h /\ s.uid[x] # NoUid
        /\ \A y \in Thing \ {x} : s.uid[y] = r.uid[y]
    BY <1>1, <1>2, <2>2 DEF NoUid
  <2>4. /\ DOMAIN s.vec = Kind /\ DOMAIN s.hotel = Kind
        /\ s.vec[k] = [r.vec[k] EXCEPT ![0] = h + 1] /\ s.hotel[k] = Append(r.hotel[k], x)
        /\ \A j \in Kind \ {k} : s.vec[j] = r.vec[j] /\ s.hotel[j] = r.hotel[j]
    BY <1>1, <2>2
  <2>5. /\ DOMAIN s.vec[k] = DOMAIN r.vec[k] /\ s.vec[k][0] = h + 1
        /\ \A i \in DOMAIN r.vec[k] \ {0} : s.vec[k][i] = r.vec[k][i]
    BY <1>2, <2>4
  <2>6. s.vec = [j \in Kind |-> s.vec[j]] /\ s.hotel = [j \in Kind |-> s.hotel[j]]
    <3>1. s.vec = [j \in Kind |-> s.vec[j]]
      BY <2>2, <2>4 DEF RInv
    <3>2. s.hotel = [j \in Kind |-> s.hotel[j]]
      BY <2>2, <2>4 DEF RInv
    <3>3. QED
      BY <3>1, <3>2
  <2> HIDE DEF h, k
  <2>7. SlotsSound(s.vec[k]) /\ ThingsSound(k, s.vec[k], s.hotel[k], s.uid)
    <3>1. h = r.vec[k][0] /\ KindOf(x) = k
      BY DEF h, k
    <3>2. SlotsSound(s.vec[k]) /\ ThingsSound(k, s.vec[k], Append(r.hotel[k], x), s.uid)
      BY <3>1, <1>1, <1>5, <2>3, <2>5, LateSlotGiven
    <3>3. QED
      BY <3>2, <2>4
  <2>8. ThingsIn(s.hotel[k]) \subseteq ThingsIn(r.hotel[k]) \cup {x}
    <3>1. r.hotel[k] \in Seq(Thing)
      BY <1>1 DEF ThingsSound, HotelSound
    <3>2. QED
      BY <3>1, <2>4, ThingsAppended
  <2>9. RInv(s, Kind)
    <3>1. s = [vec |-> s.vec, uid |-> s.uid, hotel |-> s.hotel] /\ k = KindOf(x)
      BY <2>2 DEF k
    <3>2. \A j \in Kind \ {k} : s.vec[j] = r.vec[j] /\ s.hotel[j] = r.hotel[j]
      BY <2>4
    <3>3. QED
      BY <3>1, <3>2, <1>5, <2>3, <2>6, <2>7, <2>8, OnlyItsKind
  <2>10. \A y \in Thing : r.uid[y] # NoUid => s.uid[y] = r.uid[y]
    BY <1>5, <2>3
  <2>11. QED
    BY <2>3, <2>9, <2>10 DEF s
<1>6. QED
  BY <1>3, <1>4, <1>5

\* The first n steps of the function that GetUids computes.
Encoded(f, xs, n) ==
  f = [i \in 0 .. n |->
         IF i = 0 THEN [vec |-> vec, uid |-> uid, hotel |-> [k \in Kind |-> <<>>]]
         ELSE GetUid(f[i - 1], xs[i])]

\* The recursion of GetUids has a solution, and GetUids is its last value.
LEMMA GetUidsIsDefined ==
  ASSUME NEW xs, NEW N \in Nat
  PROVE  \E f : Encoded(f, xs, N) /\ GetUids(xs, N) = f[N]
<1> DEFINE D == {n \in 0 .. N : \E f : Encoded(f, xs, n)}
<1>1. 0 \in D
  <2> DEFINE g == [i \in 0 .. 0 |-> [vec |-> vec, uid |-> uid, hotel |-> [k \in Kind |-> <<>>]]]
  <2>1. Encoded(g, xs, 0)
    BY DEF Encoded
  <2>2. \E f : Encoded(f, xs, 0)
    BY <2>1, Zenon
  <2>3. QED
    BY <2>2
<1>2. ASSUME NEW n \in 1 .. N, n - 1 \in D
      PROVE  n \in D
  <2>1. PICK f : Encoded(f, xs, n - 1)
    BY <1>2
  <2> DEFINE e == GetUid(f[n - 1], xs[n])
  <2> DEFINE g == [i \in 0 .. n |-> IF i = n THEN e ELSE f[i]]
  <2>2. Encoded(g, xs, n)
    <3>1. ASSUME NEW i \in 0 .. n
          PROVE  g[i] = IF i = 0 THEN [vec |-> vec, uid |-> uid, hotel |-> [k \in Kind |-> <<>>]]
                        ELSE GetUid(g[i - 1], xs[i])
      <4>1. CASE i = n
        <5>1. g[i] = e /\ g[i - 1] = f[n - 1]
          BY <4>1
        <5>2. QED
          BY <4>1, <5>1
      <4>2. CASE i # n
        <5>1. i \in 0 .. n - 1 /\ g[i] = f[i] /\ (i # 0 => g[i - 1] = f[i - 1])
          BY <4>2
        <5>2. QED
          BY <5>1, <2>1 DEF Encoded
      <4>3. QED
        BY <4>1, <4>2
    <3>2. QED
      BY <3>1 DEF Encoded
  <2>3. \E h : Encoded(h, xs, n)
    <3> HIDE DEF g
    <3>1. QED
      BY <2>2
  <2>4. QED
    BY <2>3
<1>3. 0 .. N \subseteq D
  <2> HIDE DEF D
  <2>1. QED
    BY <1>1, <1>2, InductionTo
<1>4. \E f : Encoded(f, xs, N)
  BY <1>3
<1> DEFINE f == CHOOSE g : Encoded(g, xs, N)
<1>5. Encoded(f, xs, N)
  BY <1>4
<1>6. GetUids(xs, N) = f[N]
  BY DEF GetUids, Encoded
<1>7. QED
  <2> HIDE DEF f
  <2>1. QED
    BY <1>5, <1>6

\* encode_object, over the first n things of a message: the facts hold, and all n
\* things have a uid.
LEMMA UidsGiven ==
  ASSUME DInv, NEW N \in Nat, NEW xs, \A i \in 1 .. N : xs[i] \in Thing \ dead
  PROVE  RInv(GetUids(xs, N), Kind) /\ \A i \in 1 .. N : GetUids(xs, N).uid[xs[i]] # NoUid
<1>1. PICK f : Encoded(f, xs, N) /\ GetUids(xs, N) = f[N]
  BY GetUidsIsDefined
<1> DEFINE D == {n \in 0 .. N : RInv(f[n], Kind) /\ \A i \in 1 .. n : f[n].uid[xs[i]] # NoUid}
<1>2. 0 \in D
  <2> DEFINE r == [vec |-> vec, uid |-> uid, hotel |-> [k \in Kind |-> <<>>]]
  <2>1. f[0] = r
    BY <1>1 DEF Encoded
  <2>2. \A k \in Kind : ThingsIn(r.hotel[k]) = {}
    BY DEF ThingsIn
  <2>3. RInv(r, Kind)
    BY <2>2 DEF RInv, DInv
  <2>4. QED
    BY <2>1, <2>3
<1>3. ASSUME NEW n \in 1 .. N, n - 1 \in D
      PROVE  n \in D
  <2>1. f[n] = GetUid(f[n - 1], xs[n])
    BY <1>1 DEF Encoded
  <2>2. RInv(f[n - 1], Kind) /\ \A i \in 1 .. n - 1 : f[n - 1].uid[xs[i]] # NoUid
    BY <1>3
  <2>3. /\ RInv(f[n], Kind)
        /\ f[n].uid[xs[n]] # NoUid
        /\ \A y \in Thing : f[n - 1].uid[y] # NoUid => f[n].uid[y] = f[n - 1].uid[y]
    BY <2>1, <2>2, UidGiven
  <2>4. \A i \in 1 .. n : f[n].uid[xs[i]] # NoUid
    BY <2>2, <2>3
  <2>5. QED
    BY <2>3, <2>4
<1>4. 0 .. N \subseteq D
  <2> HIDE DEF D
  <2>1. QED
    BY <1>2, <1>3, InductionTo
<1>5. QED
  BY <1>1, <1>4

\* drop-new-ids!: what is left is sound without the hotels.
LEMMA IdsDropped ==
  ASSUME NEW r, NEW K, RInv(r, K), dead \subseteq Proxy
  PROVE  RInv(DropNewIds(r), {})
<1> DEFINE s == DropNewIds(r)
<1>1. /\ s = [vec |-> s.vec, uid |-> s.uid, hotel |-> s.hotel] /\ s.vec = r.vec /\ s.hotel = r.hotel
      /\ s.uid = [x \in Thing |-> IF x \in ThingsIn(r.hotel["decode"]) THEN NoUid ELSE r.uid[x]]
  <2> DEFINE u == [x \in Thing |-> IF x \in ThingsIn(r.hotel["decode"]) THEN NoUid ELSE r.uid[x]]
  <2>1. s = [r EXCEPT !.uid = u]
    BY DEF DropNewIds
  <2>2. r = [vec |-> r.vec, uid |-> r.uid, hotel |-> r.hotel]
    BY DEF RInv
  <2> HIDE DEF u, s
  <2>3. s = [vec |-> r.vec, uid |-> u, hotel |-> r.hotel]
    BY <2>1, <2>2
  <2>4. s = [vec |-> s.vec, uid |-> s.uid, hotel |-> s.hotel] /\ s.vec = r.vec /\ s.hotel = r.hotel /\ s.uid = u
    BY <2>3
  <2>5. QED
    BY <2>4 DEF u
<1> HIDE DEF s
<1>2. /\ s.uid \in [Thing -> Nat]
      /\ \A x \in Thing : s.uid[x] \in {r.uid[x], NoUid}
      /\ \A x \in Thing : uid[x] # NoUid => s.uid[x] = uid[x]
  BY <1>1 DEF RInv, NoUid, Kind
<1>3. ASSUME NEW k \in Kind
      PROVE  ThingsSound(k, s.vec[k], <<>>, s.uid)
  <2>1. CASE k \in K
    <3>1. ThingsSound(k, r.vec[k], r.hotel[k], r.uid) /\ r.uid \in [Thing -> Nat]
      BY <2>1 DEF RInv
    <3>2. \A x \in ThingsIn(r.hotel[k]) \cap Object : s.uid[x] = NoUid
      <4>1. \A x \in ThingsIn(r.hotel[k]) : KindOf(x) = k
        BY <3>1 DEF ThingsSound, HotelSound, ThingsIn, Named
      <4>2. \A x \in Object : KindOf(x) = "decode" /\ x \in Thing
        BY DecodeVectorsAssumption DEF KindOf, Thing
      <4>3. QED
        BY <1>1, <4>1, <4>2
    <3>3. QED
      BY <3>1, <3>2, <1>1, <1>2, SomeForgotten
  <2>2. CASE k \notin K
    <3>1. ThingsSound(k, r.vec[k], <<>>, r.uid) /\ r.uid \in [Thing -> Nat]
      BY <2>2 DEF RInv
    <3>2. \A x \in ThingsIn(<<>>) \cap Object : s.uid[x] = NoUid
      BY DEF ThingsIn
    <3>3. QED
      BY <3>1, <3>2, <1>1, <1>2, SomeForgotten
  <2>3. QED
    BY <2>1, <2>2
<1>4. RInv(s, {})
  BY <1>1, <1>2, <1>3 DEF RInv
<1>5. QED
  BY <1>4 DEF s

\* Slots and places in the hotel.
LEMMA PositionOf ==
  ASSUME NEW r, NEW k, r.vec[k][0] \in Int, Len(r.hotel[k]) \in Int
  PROVE  /\ \A i \in Int : i = r.vec[k][0] - Len(r.hotel[k]) + Position(r, k, i) - 1
         /\ \A j \in Int : Position(r, k, r.vec[k][0] - Len(r.hotel[k]) + j - 1) = j
<1>1. PICK b \in Int : b = r.vec[k][0]
  OBVIOUS
<1>2. PICK c \in Int : c = Len(r.hotel[k])
  OBVIOUS
<1>3. \A i : Position(r, k, i) = i - (b - 1) + c
  BY <1>1, <1>2 DEF Position
<1>4. \A i \in Int : Position(r, k, b - c + i - 1) = b - c + i - 1 - (b - 1) + c
  BY <1>3
<1>5. (\A i \in Int : i = b - c + Position(r, k, i) - 1) /\ (\A j \in Int : Position(r, k, b - c + j - 1) = j)
  BY <1>3, <1>4
<1>6. QED
  BY <1>1, <1>2, <1>5

\* update-decode-vectors!, for the vector k.
LEMMA VectorExtended ==
  ASSUME NEW r, NEW K, RInv(r, K), NEW k \in K, K \subseteq Kind, NEW e \in Extended(r, k)
  PROVE  RInv(e, K \ {k}) /\ e.uid = r.uid
<1> DEFINE V == r.vec[k]
<1> DEFINE H == r.hotel[k]
<1> DEFINE h == V[0]
<1>1. SlotsSound(V) /\ ThingsSound(k, V, H, r.uid) /\ r.uid \in [Thing -> Nat]
  BY DEF RInv
<1>2. h \in Nat /\ Length(V) \in Nat /\ Length(V) >= 1 /\ DOMAIN V = 0 .. Length(V) - 1
  BY <1>1 DEF SlotsSound, Links
<1>3. CASE ~Full(r, k)
  <2>1. e = r /\ H = <<>>
    <3>1. e = r /\ V[0] <= Length(V)
      BY <1>2, <1>3 DEF Extended, Full
    <3>2. QED
      BY <3>1, <1>1, HotelEmpty
  <2>2. ThingsSound(k, r.vec[k], <<>>, r.uid)
    BY <2>1, <1>1
  <2>3. QED
    BY <2>1, <2>2 DEF RInv
<1>4. CASE Full(r, k)
  <2>1. PICK m \in NewLengths(r, k) : e = Extend(r, k, m)
    BY <1>4 DEF Extended
  <2>2. m \in Nat /\ m >= h /\ h > Length(V)
    BY <1>2, <1>4, <2>1 DEF NewLengths, Larger, Full
  <2> DEFINE W == [i \in 0 .. m - 1 |->
                     IF i < Length(V) THEN V[i]
                     ELSE IF i >= h THEN i + 1
                     ELSE IF Position(r, k, i) \in DOMAIN H THEN H[Position(r, k, i)]
                     ELSE Junk]
  <2>3. /\ e = [vec |-> e.vec, uid |-> e.uid, hotel |-> e.hotel]
        /\ e.uid = r.uid /\ e.hotel = r.hotel /\ e.vec = [r.vec EXCEPT ![k] = W]
    BY <2>1 DEF Extend, RInv
  <2>4. SlotsSound(W) /\ ThingsSound(k, W, <<>>, r.uid)
    <3>1. DOMAIN H = 1 .. Len(H) /\ Len(H) \in Nat
      BY <1>1 DEF ThingsSound, HotelSound
    <3>2. \A i \in DOMAIN V : i \in 0 .. m - 1 /\ i < Length(V) /\ W[i] = V[i]
      BY <1>2, <2>2
    <3>3. \A i \in h .. m - 1 : i \in 0 .. m - 1 /\ ~(i < Length(V)) /\ W[i] = i + 1
      BY <1>2, <2>2
    <3>4. \A i \in Length(V) .. h - 1 :
            W[i] = IF Position(r, k, i) \in DOMAIN H THEN H[Position(r, k, i)] ELSE Junk
      <4>1. \A i \in Length(V) .. h - 1 : i \in 0 .. m - 1 /\ ~(i < Length(V)) /\ ~(i >= h)
        BY <1>2, <2>2
      <4>2. QED
        BY <4>1
    <3> HIDE DEF W
    <3>5. /\ \A i \in Int : i = h - Len(H) + Position(r, k, i) - 1
          /\ \A j \in Int : Position(r, k, h - Len(H) + j - 1) = j
      <4>1. h \in Int /\ Len(H) \in Int
        BY <1>2, <3>1
      <4>2. QED
        BY <4>1, PositionOf
    <3>6. \A j \in 1 .. Len(H) : h - Len(H) + j - 1 \in Length(V) .. h - 1
      <4> SUFFICES ASSUME NEW j \in 1 .. Len(H)
                   PROVE  h - Len(H) + j - 1 \in Length(V) .. h - 1
        OBVIOUS
      <4>1. H[j] \in Named(k, r.uid) /\ r.uid[H[j]] = h - Len(H) + j - 1 /\ r.uid[H[j]] >= Length(V)
        BY <1>1 DEF ThingsSound, HotelSound
      <4>2. QED
        BY <4>1, <3>1, <1>2
    <3>7. \A j \in 1 .. Len(H) : W[h - Len(H) + j - 1] = H[j]
      <4> SUFFICES ASSUME NEW j \in 1 .. Len(H)
                   PROVE  W[h - Len(H) + j - 1] = H[j]
        OBVIOUS
      <4>1. h - Len(H) + j - 1 \in Length(V) .. h - 1 /\ Position(r, k, h - Len(H) + j - 1) = j
        BY <3>5, <3>6
      <4>2. \A i \in Length(V) .. h - 1 : Position(r, k, i) = j => W[i] = H[j]
        BY <3>1, <3>4
      <4>3. QED
        BY <4>1, <4>2, Zenon
    <3>8. \A i \in Length(V) .. h - 1 :
            W[i] = Junk \/ \E j \in 1 .. Len(H) : i = h - Len(H) + j - 1 /\ W[i] = H[j]
      <4> SUFFICES ASSUME NEW i \in Length(V) .. h - 1, W[i] # Junk
                   PROVE  \E j \in 1 .. Len(H) : i = h - Len(H) + j - 1 /\ W[i] = H[j]
        OBVIOUS
      <4>1. Position(r, k, i) \in 1 .. Len(H) /\ W[i] = H[Position(r, k, i)]
        BY <3>1, <3>4
      <4>2. i = h - Len(H) + Position(r, k, i) - 1
        BY <1>2, <3>5
      <4>3. QED
        BY <4>1, <4>2, Zenon
    <3>9. DOMAIN W = 0 .. m - 1
      BY DEF W
    <3>10. (\A i \in DOMAIN V : W[i] = V[i]) /\ (\A i \in V[0] .. m - 1 : W[i] = i + 1)
      BY <3>2, <3>3
    <3>11. V[0] > Length(V) /\ m >= V[0] /\ m \in Nat
      BY <2>2
    <3> HIDE DEF V, H
    <3>12. QED
      BY <1>1, <3>7, <3>8, <3>9, <3>10, <3>11, HotelMovedIn
  <2> HIDE DEF W
  <2>5. /\ e.vec = [j \in Kind |-> e.vec[j]] /\ e.vec[k] = W
        /\ \A j \in Kind \ {k} : e.vec[j] = r.vec[j]
    BY <2>3 DEF RInv
  <2>6. QED
    BY <2>3, <2>4, <2>5 DEF RInv
<1>5. QED
  BY <1>3, <1>4

-----------------------------------------------------------------------------
(* Steps.                                                                  *)

LEMMA DInvInit == Init => DInv
<1> SUFFICES ASSUME Init PROVE DInv
  OBVIOUS
<1>1. /\ DOMAIN vec["proxy"] = 0 .. 1 - 1 /\ vec["proxy"][0] = 1
      /\ DOMAIN vec["decode"] = 0 .. 2 - 1 /\ vec["decode"][0] = 2 /\ vec["decode"][1] = Self
  BY DEF Init, Kind
<1>2. Length(vec["proxy"]) = 1 /\ Length(vec["decode"]) = 2
  BY <1>1, LengthOf
<1>3. Self \notin Nat
  BY DecodeVectorsAssumption
<1>4. SlotsSound(vec["proxy"])
  <2>1. Links(vec["proxy"]) = {0}
    BY <1>1 DEF Links
  <2>2. QED
    BY <1>1, <1>2, <2>1 DEF SlotsSound
<1>5. SlotsSound(vec["decode"])
  <2>1. Links(vec["decode"]) = {0}
    BY <1>1, <1>3 DEF Links
  <2>2. QED
    BY <1>1, <1>2, <2>1 DEF SlotsSound
<1>6. ASSUME NEW k \in Kind
      PROVE  SlotsSound(vec[k]) /\ ThingsSound(k, vec[k], <<>>, uid)
  <2>1. SlotsSound(vec[k])
    BY <1>4, <1>5 DEF Kind
  <2>2. Named(k, uid) = {}
    BY DEF Init, Named
  <2>3. HotelSound(k, vec[k], <<>>, uid)
    BY DEF HotelSound
  <2>4. QED
    BY <2>1, <2>2, <2>3 DEF ThingsSound
<1>7. vec = [k \in Kind |-> vec[k]] /\ uid \in [Thing -> Nat]
  BY DEF Init, NoUid
<1>8. QED
  BY <1>6, <1>7 DEF DInv, Init

\* A message is a sequence of things that are not dead.
LEMMA MessageOf ==
  ASSUME DInv, NEW xs, Attempt(xs)
  PROVE  /\ Len(xs) \in Nat /\ xs \in Messages
         /\ ThingsIn(xs) = {xs[i] : i \in 1 .. Len(xs)}
         /\ \A i \in 1 .. Len(xs) : xs[i] \in Thing \ dead
<1>1. xs \in Messages /\ ThingsIn(xs) \cap dead = {}
  BY DEF DInv, Attempt
<1>2. PICK n \in 1 .. MaxThings : xs \in [1 .. n -> Thing]
  BY <1>1 DEF Messages
<1>3. n \in Nat /\ DOMAIN xs = 1 .. n
  BY <1>2
<1>4. xs \in Seq(Thing) /\ Len(xs) = n
  BY <1>2, <1>3
<1>5. QED
  BY <1>1, <1>2, <1>3, <1>4 DEF ThingsIn

\* The end of every attempt to encode.
LEMMA AttemptEnds ==
  ASSUME DInv, NEW r, RInv(r, {}), Becomes(r), dead' = dead, retry' \in Messages \cup {<<>>},
         \A s \in sent' : s \in sent \/ (s[1] \in Thing /\ s[2] # NoUid /\ r.uid[s[1]] = s[2])
  PROVE  DInv' /\ \A s \in sent : uid'[s[1]] = s[2]
<1>1. vec' = r.vec /\ uid' = r.uid
  BY DEF Becomes
<1>2. \A s \in sent : s[1] \in Thing /\ s[2] # NoUid /\ uid[s[1]] = s[2]
  BY DEF DInv
<1>3. \A s \in sent : uid'[s[1]] = s[2]
  BY <1>1, <1>2 DEF RInv
<1>4. \A s \in sent' : s[1] \in Thing /\ s[2] # NoUid /\ uid'[s[1]] = s[2]
  BY <1>1, <1>2, <1>3
<1>5. vec' = [k \in Kind |-> vec'[k]] /\ uid' \in [Thing -> Nat]
  BY <1>1 DEF RInv
<1>6. \A k \in Kind : SlotsSound(r.vec[k]) /\ ThingsSound(k, r.vec[k], <<>>, r.uid)
  BY DEF RInv
<1>7. \A k \in Kind : SlotsSound(vec[k])' /\ ThingsSound(k, vec[k], <<>>, uid)'
  BY <1>1, <1>6
    DEF SlotsSound, Links, Length, Thing, ThingsSound, HotelSound, Named, SlotSound, ThingsIn, KindOf
<1>8. (dead \subseteq Proxy)'
  BY DEF DInv
<1>9. QED
  BY <1>3, <1>4, <1>5, <1>7, <1>8 DEF DInv

\* What Failed and Encode leave in retry.
LEMMA RetryIsMessage ==
  ASSUME DInv, NEW xs \in Messages, Failed(xs)
  PROVE  retry' \in Messages \cup {<<>>} /\ sent' = sent /\ dead' = dead
BY DEF Failed

\* encode_object for the whole message, and what its vectors become.
LEMMA MessageEncoded ==
  ASSUME DInv, NEW xs, Attempt(xs)
  PROVE  /\ RInv(Uids(xs), Kind)
         /\ \A x \in ThingsIn(xs) : x \in Thing /\ Uids(xs).uid[x] # NoUid
         /\ \A e \in Extended(Uids(xs), "decode") : \A f \in Extended(e, "proxy") :
              RInv(f, {}) /\ f.uid = Uids(xs).uid
<1>1. /\ Len(xs) \in Nat /\ ThingsIn(xs) = {xs[i] : i \in 1 .. Len(xs)}
      /\ \A i \in 1 .. Len(xs) : xs[i] \in Thing \ dead
  BY MessageOf
<1>2. RInv(Uids(xs), Kind) /\ \A i \in 1 .. Len(xs) : Uids(xs).uid[xs[i]] # NoUid
  BY <1>1, UidsGiven DEF Uids
<1>3. ASSUME NEW e \in Extended(Uids(xs), "decode"), NEW f \in Extended(e, "proxy")
      PROVE  RInv(f, {}) /\ f.uid = Uids(xs).uid
  <2>1. "decode" \in Kind /\ "proxy" \in {"proxy"} /\ {"proxy"} \subseteq Kind
        /\ Kind \ {"decode"} = {"proxy"} /\ {"proxy"} \ {"proxy"} = {}
    BY DEF Kind
  <2>2. RInv(e, {"proxy"}) /\ e.uid = Uids(xs).uid
    BY <1>2, <2>1, VectorExtended
  <2>3. RInv(f, {}) /\ f.uid = e.uid
    BY <2>1, <2>2, VectorExtended
  <2>4. QED
    BY <2>2, <2>3
<1>4. QED
  BY <1>1, <1>2, <1>3

\* The four ways in which an attempt to encode fails, and the one in which it does not.
LEMMA LosesSpace ==
  ASSUME DInv, NEW xs, LoseSpace(xs)
  PROVE  DInv' /\ \A s \in sent : uid'[s[1]] = s[2]
<1>1. PICK n \in 0 .. Len(xs) : Becomes(DropNewIds(GetUids(xs, n)))
  BY DEF LoseSpace
<1>2. /\ Attempt(xs) /\ Failed(xs) /\ xs \in Messages /\ Len(xs) \in Nat
      /\ \A i \in 1 .. Len(xs) : xs[i] \in Thing \ dead
  BY MessageOf DEF LoseSpace
<1>3. RInv(GetUids(xs, n), Kind)
  BY <1>2, UidsGiven
<1>4. RInv(DropNewIds(GetUids(xs, n)), {})
  BY <1>3, IdsDropped DEF DInv
<1>5. QED
  BY <1>1, <1>2, <1>4, RetryIsMessage, AttemptEnds

LEMMA ExtendsNothing ==
  ASSUME DInv, NEW xs, CannotExtend(xs)
  PROVE  DInv' /\ \A s \in sent : uid'[s[1]] = s[2]
<1>1. Attempt(xs) /\ Failed(xs) /\ xs \in Messages /\ Becomes(DropNewIds(Uids(xs)))
  BY MessageOf DEF CannotExtend
<1>2. RInv(DropNewIds(Uids(xs)), {})
  BY <1>1, MessageEncoded, IdsDropped DEF DInv
<1>3. QED
  BY <1>1, <1>2, RetryIsMessage, AttemptEnds

LEMMA ExtendsOneOnly ==
  ASSUME DInv, NEW xs, CannotExtendProxies(xs)
  PROVE  DInv' /\ \A s \in sent : uid'[s[1]] = s[2]
<1>1. Attempt(xs) /\ Failed(xs) /\ xs \in Messages
  BY MessageOf DEF CannotExtendProxies
<1>2. PICK e \in Extended(Uids(xs), "decode") : Becomes(DropNewIds(e))
  BY DEF CannotExtendProxies
<1>3. RInv(e, Kind \ {"decode"})
  <2>1. RInv(Uids(xs), Kind) /\ "decode" \in Kind
    BY <1>1, MessageEncoded DEF Kind
  <2>2. QED
    BY <2>1, VectorExtended
<1>4. RInv(DropNewIds(e), {})
  BY <1>3, IdsDropped DEF DInv
<1>5. QED
  BY <1>1, <1>2, <1>4, RetryIsMessage, AttemptEnds

LEMMA ReportsNothing ==
  ASSUME DInv, NEW xs, CannotReport(xs)
  PROVE  DInv' /\ \A s \in sent : uid'[s[1]] = s[2]
<1>1. Attempt(xs) /\ Failed(xs) /\ xs \in Messages
  BY MessageOf DEF CannotReport
<1>2. PICK e \in Extended(Uids(xs), "decode") : \E f \in Extended(e, "proxy") : Becomes(f)
  BY DEF CannotReport
<1>3. PICK f \in Extended(e, "proxy") : Becomes(f)
  BY <1>2
<1>4. RInv(f, {})
  BY <1>1, MessageEncoded
<1>5. QED
  BY <1>1, <1>3, <1>4, RetryIsMessage, AttemptEnds

LEMMA Encodes ==
  ASSUME DInv, NEW xs, Encode(xs)
  PROVE  DInv' /\ \A s \in sent : uid'[s[1]] = s[2]
<1>1. PICK e \in Extended(Uids(xs), "decode") : \E f \in Extended(e, "proxy") : Becomes(f)
  BY DEF Encode
<1>2. PICK f \in Extended(e, "proxy") : Becomes(f)
  BY <1>1
<1>3. Attempt(xs) /\ retry' = <<>> /\ dead' = dead
  BY DEF Encode
<1>4. RInv(f, {}) /\ \A x \in ThingsIn(xs) : x \in Thing /\ f.uid[x] # NoUid
  BY <1>3, MessageEncoded
<1>5. \A s \in sent' : s \in sent \/ (s[1] \in Thing /\ s[2] # NoUid /\ f.uid[s[1]] = s[2])
  BY <1>2, <1>4 DEF Encode, Becomes
<1>6. QED
  BY <1>2, <1>3, <1>4, <1>5, AttemptEnds

\* deallocate-proxy-uid.
LEMMA Frees ==
  ASSUME DInv, NEW p \in Proxy, Deallocate(p)
  PROVE  DInv' /\ \A s \in sent : uid'[s[1]] = s[2]
<1> DEFINE V == vec["proxy"]
<1> DEFINE W == vec'["proxy"]
<1> DEFINE n == uid[p]
<1>1. /\ p \notin dead /\ n \in DOMAIN V /\ V[n] = p
      /\ vec' = [vec EXCEPT !["proxy"][n] = V[0], !["proxy"][0] = n]
      /\ dead' = dead \cup {p} /\ uid' = uid /\ retry' = retry /\ sent' = sent
  BY DEF Deallocate
<1>2. /\ SlotsSound(V) /\ ThingsSound("proxy", V, <<>>, uid)
      /\ SlotsSound(vec["decode"]) /\ ThingsSound("decode", vec["decode"], <<>>, uid)
      /\ DOMAIN vec = Kind /\ "proxy" \in Kind /\ "decode" \in Kind /\ uid \in [Thing -> Nat]
  BY DEF DInv, Kind
<1>3. p \in Thing /\ p \notin Nat /\ 0 \in DOMAIN V /\ V[0] \in Nat /\ n # 0
  BY <1>1, <1>2, DecodeVectorsAssumption DEF Thing, SlotsSound, Links
<1>4. /\ vec' = [k \in Kind |-> vec'[k]] /\ vec'["decode"] = vec["decode"]
      /\ W = [V EXCEPT ![n] = V[0], ![0] = n]
  BY <1>1, <1>2
<1>5. DOMAIN W = DOMAIN V /\ W[0] = n /\ W[n] = V[0] /\ \A i \in DOMAIN V \ {0, n} : W[i] = V[i]
  BY <1>1, <1>3, <1>4
<1> HIDE DEF V, W
<1>6. /\ SlotsSound(W) /\ Length(W) = Length(V)
      /\ \A i \in Links(W) : i # 0 => \E j \in Links(V) : W[i] = V[j]
  BY <1>1, <1>2, <1>3, <1>5, SlotFreed
<1>7. p \in Named("proxy", uid)
  BY <1>1, <1>3 DEF Named, KindOf, NoUid
<1>8. \A k \in Kind : Named(k, uid)' = Named(k, uid) \ {p}
  BY <1>1 DEF Named, KindOf, Thing
<1>9. ASSUME NEW x \in Named("proxy", uid) \ {p}
      PROVE  SlotSound(x, W, <<>>, uid)
  <2>1. x \in Thing /\ uid[x] \in Nat /\ uid[x] # 0 /\ SlotSound(x, V, <<>>, uid) /\ uid[x] # n
    BY <1>2, <1>7 DEF Named, NoUid, ThingsSound
  <2>2. uid[x] < Length(V) => uid[x] \in DOMAIN V \ {0, n}
    BY <2>1, <1>2 DEF SlotsSound
  <2>3. uid[x] >= Length(V) => \A i \in Links(W) : W[i] >= Length(V) => uid[x] < W[i]
    <3>1. n < Length(V) /\ n \in Nat /\ Length(V) \in Nat
      BY <1>1, <1>2 DEF SlotsSound
    <3>2. \A i \in Links(W) : W[i] >= Length(V) => i # 0
      BY <3>1, <1>5
    <3>3. QED
      BY <3>2, <1>6, <2>1 DEF SlotSound
  <2>4. QED
    BY <2>1, <2>2, <2>3, <1>5, <1>6 DEF SlotSound
<1>10. ThingsSound("proxy", vec["proxy"], <<>>, uid)' /\ SlotsSound(vec["proxy"])'
  <2>1. \A x, y \in Named("proxy", uid) : uid[x] = uid[y] => x = y
    BY <1>2 DEF ThingsSound
  <2>2. W = vec'["proxy"] /\ uid' = uid
    BY <1>1 DEF W
  <2>3. SlotsSound(vec["proxy"])'
    BY <1>6, <2>2 DEF SlotsSound, Links, Length, Thing
  <2>4. \A x \in Named("proxy", uid)' : SlotSound(x, vec["proxy"], <<>>, uid)'
    BY <1>8, <1>9, <1>2, <2>2 DEF SlotSound, Links, Length, ThingsIn
  <2>5. \A x, y \in Named("proxy", uid)' : uid'[x] = uid'[y] => x = y
    BY <1>8, <1>2, <2>1, <2>2
  <2>6. HotelSound("proxy", vec["proxy"], <<>>, uid)'
    BY DEF HotelSound
  <2>7. QED
    BY <2>3, <2>4, <2>5, <2>6 DEF ThingsSound
<1>11. ThingsSound("decode", vec["decode"], <<>>, uid)' /\ SlotsSound(vec["decode"])'
  <2>1. vec'["decode"] = vec["decode"] /\ uid' = uid
    BY <1>1, <1>4
  <2>2. Named("decode", uid)' = Named("decode", uid)
    BY <1>8, <1>2 DEF Named, KindOf
  <2>3. SlotsSound(vec["decode"])'
    BY <1>2, <2>1 DEF SlotsSound, Links, Length, Thing
  <2>4. \A x \in Named("decode", uid)' : SlotSound(x, vec["decode"], <<>>, uid)'
    BY <1>2, <2>1, <2>2 DEF ThingsSound, SlotSound, Links, Length, ThingsIn
  <2>5. \A x, y \in Named("decode", uid)' : uid'[x] = uid'[y] => x = y
    BY <1>2, <2>1, <2>2 DEF ThingsSound
  <2>6. HotelSound("decode", vec["decode"], <<>>, uid)'
    BY DEF HotelSound
  <2>7. QED
    BY <2>3, <2>4, <2>5, <2>6 DEF ThingsSound
<1>12. \A k \in Kind : (SlotsSound(vec[k]) /\ ThingsSound(k, vec[k], <<>>, uid))'
  BY <1>10, <1>11 DEF Kind
<1>13. (dead \subseteq Proxy)' /\ (uid \in [Thing -> Nat])' /\ (retry \in Messages \cup {<<>>})'
  BY <1>1 DEF DInv, Thing, Messages
<1>14. \A s \in sent : s[1] \in Thing /\ s[2] # NoUid /\ uid[s[1]] = s[2]
  BY DEF DInv
<1>15. QED
  BY <1>1, <1>4, <1>12, <1>13, <1>14 DEF DInv, Thing

LEMMA DInvNext == DInv /\ [Next]_vars => DInv' /\ \A s \in sent : uid'[s[1]] = s[2]
<1> SUFFICES ASSUME DInv, [Next]_vars
             PROVE  DInv' /\ \A s \in sent : uid'[s[1]] = s[2]
  OBVIOUS
<1>1. ASSUME NEW xs \in Messages \cup {retry},
             LoseSpace(xs) \/ CannotExtend(xs) \/ CannotExtendProxies(xs) \/ CannotReport(xs) \/ Encode(xs)
      PROVE  DInv' /\ \A s \in sent : uid'[s[1]] = s[2]
  BY <1>1, LosesSpace, ExtendsNothing, ExtendsOneOnly, ReportsNothing, Encodes
<1>2. ASSUME NEW p \in Proxy, Deallocate(p)
      PROVE  DInv' /\ \A s \in sent : uid'[s[1]] = s[2]
  BY <1>2, Frees
<1>3. CASE UNCHANGED vars
  BY <1>3 DEF vars, DInv, SlotsSound, Links, Length, Thing, ThingsSound, HotelSound, Named, SlotSound,
              ThingsIn, KindOf, Messages
<1>4. QED
  BY <1>1, <1>2, <1>3 DEF Next

\* The invariant holds in every reachable state.
THEOREM UidsSound == Spec => []DInv
<1>1. Init => DInv
  BY DInvInit
<1>2. DInv /\ [Next]_vars => DInv'
  BY DInvNext
<1>3. QED
  BY <1>1, <1>2, PTL DEF Spec

-----------------------------------------------------------------------------
(* The properties of the run.                                              *)

\* However often encodings fail halfway, and whatever is freed between, no two things
\* in use of one kind have the same uid (real-next-id, drop-new-ids!).
THEOREM NoUidTwice == Spec => []UidsDistinct
<1>1. DInv => UidsDistinct
  <2> SUFFICES ASSUME DInv, NEW x \in Thing \ dead, NEW y \in Thing \ dead,
                      KindOf(x) = KindOf(y), uid[x] = uid[y], uid[x] # NoUid
               PROVE  x = y
    BY DEF UidsDistinct
  <2>1. KindOf(x) \in Kind /\ x \in Named(KindOf(x), uid) /\ y \in Named(KindOf(x), uid)
    BY DEF Named, KindOf, Kind
  <2>2. QED
    BY <2>1 DEF DInv, ThingsSound
<1>2. QED
  BY <1>1, UidsSound, PTL

\* Every object that a message named is in the decode vector under that uid, whatever
\* was encoded since (make-uid-reply looks it up there).
THEOREM SentObjectsFound == Spec => []SentObjectsResolve
<1>1. DInv => SentObjectsResolve
  <2> SUFFICES ASSUME DInv, NEW s \in sent, s[1] \in Object
               PROVE  s[2] \in DOMAIN vec["decode"] /\ vec["decode"][s[2]] = s[1]
    BY DEF SentObjectsResolve
  <2> DEFINE V == vec["decode"]
  <2>1. /\ s[1] \in Thing /\ s[2] # NoUid /\ uid[s[1]] = s[2] /\ uid \in [Thing -> Nat]
        /\ s[1] \notin Proxy /\ s[1] \notin dead /\ KindOf(s[1]) = "decode"
    BY DecodeVectorsAssumption DEF DInv, KindOf, Thing
  <2>2. SlotsSound(V) /\ ThingsSound("decode", V, <<>>, uid)
    BY DEF DInv, Kind
  <2>3. SlotSound(s[1], V, <<>>, uid)
    BY <2>1, <2>2 DEF Named, ThingsSound
  <2>4. s[1] \notin ThingsIn(<<>>)
    BY DEF ThingsIn
  <2>5. s[2] < Length(V) /\ V[s[2]] = s[1]
    BY <2>1, <2>3, <2>4 DEF SlotSound
  <2>6. QED
    BY <2>1, <2>2, <2>5 DEF SlotsSound
<1>2. QED
  BY <1>1, UidsSound, PTL

\* Both freelists are lists of free slots in every reachable state: taking a slot,
\* growing the vector and freeing a proxy keep them so.
THEOREM FreeListsKept == Spec => []FreeListSound
<1>1. DInv => FreeListSound
  <2> SUFFICES ASSUME DInv, NEW k \in Kind
               PROVE  LET links == {i \in DOMAIN vec[k] : vec[k][i] \in Nat} IN
                      /\ \A i, j \in links : vec[k][i] = vec[k][j] => i = j
                      /\ \A i \in links : vec[k][i] \in DOMAIN vec[k] => vec[k][i] \in links \ {0}
    BY DEF FreeListSound
  <2>1. SlotsSound(vec[k])
    BY DEF DInv
  <2>2. \A i \in Links(vec[k]) : vec[k][i] \in DOMAIN vec[k] => vec[k][i] < Length(vec[k])
    BY <2>1 DEF SlotsSound
  <2>3. QED
    BY <2>1, <2>2 DEF SlotsSound, Links
<1>2. QED
  BY <1>1, UidsSound, PTL

\* No step gives a thing that was sent another uid, or takes it back: drop-new-ids!
\* only finds things in the hotel that no message has carried.
THEOREM SentUidsKept == Spec => SentUidsStable
<1>1. DInv /\ [Next]_vars => [\A s \in sent : uid'[s[1]] = s[2]]_vars
  BY DInvNext
<1>2. QED
  BY <1>1, UidsSound, PTL DEF Spec, SentUidsStable
================================================================================
