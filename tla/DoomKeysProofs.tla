--------------------------- MODULE DoomKeysProofs ----------------------------
(***************************************************************************)
(* Proofs about DoomKeys, for every HELD_MAX and ring size that satisfy    *)
(* SizeAssumption, any clock width and any number of bytes.                *)
(***************************************************************************)
EXTENDS DoomKeys, TLAPS

(* What the decoders yield is a key or nothing. *)
LEMMA KeyTypes ==
    ASSUME NEW c
    PROVE  map_key(c) \in Keys \cup {NoKey} /\ csi_key(c) \in Keys \cup {NoKey} /\ NoKey \notin Keys
<1>1. map_key(c) \in Keys \cup {NoKey}
  BY ZenonT(60) DEF map_key, Keys, Digits, NoKey
<1>2. csi_key(c) \in Keys \cup {NoKey}
  BY DEF csi_key, Keys, Digits, NoKey
<1>3. NoKey \notin Keys
  BY DEF Keys, Digits, NoKey
<1>4. QED BY <1>1, <1>2, <1>3

(* The next index of the ring is one of its indices. *)
LEMMA SuccType ==
    ASSUME NEW e \in 0..(QSize - 1)
    PROVE  Succ(e) \in 0..(QSize - 1)
BY SizeAssumption DEF Succ

(* What a push that does not find the ring full does to it. *)
LEMMA RingPush ==
    ASSUME KeysTypeOK, Succ(g_evt) # g_evh, g_evh' = g_evh, g_evt' = Succ(g_evt)
    PROVE  /\ g_evt \notin Pending /\ g_evt \in 0..(QSize - 1)
           /\ Pending' = Pending \cup {g_evt}
           /\ Count' = Count + 1
BY SizeAssumption, SMTT(30) DEF KeysTypeOK, Succ, Pending, InRing, Count

(* What a pop from a ring that is not empty does to it. *)
LEMMA RingPop ==
    ASSUME KeysTypeOK, g_evh # g_evt, g_evt' = g_evt, g_evh' = Succ(g_evh)
    PROVE  /\ g_evh \in Pending
           /\ Pending' = Pending \ {g_evh}
           /\ Count' = Count - 1
BY SizeAssumption, SMTT(30) DEF KeysTypeOK, Succ, Pending, InRing, Count

(* An empty ring. *)
LEMMA RingEmpty ==
    ASSUME KeysTypeOK, g_evh = g_evt
    PROVE  Pending = {} /\ Count = 0
BY SizeAssumption DEF KeysTypeOK, Pending, InRing, Count

(* A ring that holds no more presses than HELD_MAX is not full. *)
LEMMA RingRoom ==
    ASSUME NEW h \in 0..(QSize - 1), NEW e \in 0..(QSize - 1),
           (IF h <= e THEN e - h ELSE e - h + QSize) <= HeldMax
    PROVE  Succ(e) # h
BY SizeAssumption DEF Succ
-----------------------------------------------------------------------------
(* The slots in use. *)
LEMMA HeldSlots ==
    ASSUME KeysTypeOK
    PROVE  \A i \in Slots : /\ g_held[i] \in Hold_t /\ g_held[i].key \in Keys
                            /\ g_held[i].last \in 0..(Modulus - 1)
<1>1. \A i \in Slots : g_held[i] \in Hold_t
  BY DEF Slots, KeysTypeOK
<1>2. QED BY <1>1 DEF Hold_t

(* Touching a key keeps the types. *)
LEMMA TouchType ==
    ASSUME KeysTypeOK, NEW k \in Keys \cup {NoKey}, key_touch(k)
    PROVE  /\ g_held' \in Seq(Hold_t) /\ Len(g_held') <= HeldMax
           /\ g_evq' \in [0..(QSize - 1) -> Keys \cup {NoKey}]
           /\ g_evh' \in 0..(QSize - 1) /\ g_evt' \in 0..(QSize - 1)
<1> USE DEF KeysTypeOK, ring
<1>1. CASE k # NoKey /\ Refresh(k)
  <2>1. PICK i \in Slots : g_held' = [g_held EXCEPT ![i].last = t]
    BY <1>1 DEF Refresh
  <2>2. [g_held[i] EXCEPT !.last = t] \in Hold_t
    BY HeldSlots DEF Hold_t
  <2>3. g_held' = [g_held EXCEPT ![i] = [g_held[i] EXCEPT !.last = t]]
    BY <2>1
  <2>4. g_held' \in Seq(Hold_t) /\ Len(g_held') = Len(g_held)
    BY <2>2, <2>3 DEF Slots
  <2>5. QED BY <1>1, <2>4 DEF Refresh
<1>2. CASE k # NoKey /\ Hold(k)
  <2>1. [key |-> k, last |-> t] \in Hold_t
    BY <1>2 DEF Hold_t
  <2>2. g_held' \in Seq(Hold_t) /\ Len(g_held') = Len(g_held) + 1
    BY <1>2, <2>1 DEF Hold
  <2>3. Len(g_held) < HeldMax /\ ev_push(k) /\ g_evh' = g_evh
    BY <1>2 DEF Hold
  <2>4. HeldMax \in Nat /\ Len(g_held) \in Nat
    BY SizeAssumption
  <2>5. Len(g_held') <= HeldMax
    BY ONLY <2>2, <2>3, <2>4
  <2>6. Succ(g_evt) \in 0..(QSize - 1)
    BY SuccType
  <2>7. g_evt' \in 0..(QSize - 1) /\ g_evq' \in [0..(QSize - 1) -> Keys \cup {NoKey}]
    BY <2>3, <2>6 DEF ev_push
  <2>8. QED BY <2>2, <2>3, <2>5, <2>7
<1>3. CASE Ignore(k)
  BY <1>3 DEF Ignore
<1>4. QED BY <1>1, <1>2, <1>3 DEF key_touch

(* Every variable keeps its type; a press is of a key because the ring only *)
(* has held keys.                                                           *)
LEMMA TypeStep == KeysTypeOK /\ KeysInv /\ [KeysNext]_keysVars => KeysTypeOK'
<1> SUFFICES ASSUME KeysTypeOK, KeysInv, [KeysNext]_keysVars PROVE KeysTypeOK'
  OBVIOUS
<1> USE DEF ring, clock
<1>1. ASSUME NEW b \in Bytes, Type(b) PROVE KeysTypeOK'
  BY <1>1, SizeAssumption DEF Type, KeysTypeOK
<1>2. CASE Tick
  <2>1. (now + 1) % Modulus \in 0..(Modulus - 1)
    BY SizeAssumption DEF KeysTypeOK
  <2>2. QED BY <1>2, <2>1, SizeAssumption DEF Tick, KeysTypeOK
<1>3. CASE DG_GetKey
  BY <1>3, SizeAssumption DEF DG_GetKey, KeysTypeOK
<1>4. CASE ReadByte
  <2>1. input' \in Seq(Bytes)
    BY <1>4 DEF ReadByte, KeysTypeOK
  <2>2. CASE Head(input) \in {"^C", "ESC"}
    BY <1>4, <2>1, <2>2 DEF ReadByte, KeysTypeOK
  <2>3. CASE Head(input) \notin {"^C", "ESC"}
    <3>1. key_touch(map_key(Head(input))) /\ UNCHANGED <<pc, clock, typed, t, down>>
      BY <1>4, <2>3 DEF ReadByte
    <3>2. QED BY <2>1, <3>1, KeyTypes, TouchType DEF KeysTypeOK
  <2>4. QED BY <2>2, <2>3
<1>5. CASE EscByte
  <2>0. input \in Seq(Bytes) /\ (input # <<>> => Tail(input) \in Seq(Bytes))
    BY DEF KeysTypeOK
  <2>1. input' \in Seq(Bytes) /\ pc' \in {"pump", "csi"}
    BY <1>5, <2>0 DEF EscByte
  <2>2. CASE UNCHANGED <<g_held, ring>>
    BY <1>5, <2>1, <2>2 DEF EscByte, KeysTypeOK
  <2>3. CASE key_touch("escape")
    <3>1. "escape" \in Keys
      BY DEF Keys
    <3>2. QED BY <1>5, <2>1, <2>3, <3>1, TouchType DEF EscByte, KeysTypeOK
  <2>4. CASE key_touch(map_key(Head(input)))
    BY <1>5, <2>1, <2>4, KeyTypes, TouchType DEF EscByte, KeysTypeOK
  <2>5. QED BY <1>5, <2>2, <2>3, <2>4 DEF EscByte
<1>6. CASE CsiByte
  <2>0. input \in Seq(Bytes) /\ (input # <<>> => Tail(input) \in Seq(Bytes))
    BY DEF KeysTypeOK
  <2>1. input' \in Seq(Bytes) /\ pc' = "pump"
    BY <1>6, <2>0 DEF CsiByte
  <2>2. CASE UNCHANGED <<g_held, ring>>
    BY <1>6, <2>1, <2>2 DEF CsiByte, KeysTypeOK
  <2>3. CASE key_touch(csi_key(Head(input)))
    BY <1>6, <2>1, <2>3, KeyTypes, TouchType DEF CsiByte, KeysTypeOK
  <2>4. QED BY <1>6, <2>2, <2>3 DEF CsiByte
<1>7. CASE ReturnNothing
  BY <1>7 DEF ReturnNothing, KeysTypeOK
<1>8. CASE ReturnPress
  <2>1. g_evh \in Pending /\ g_evh' \in 0..(QSize - 1)
    BY <1>8, SizeAssumption DEF ReturnPress, Pending, InRing, Succ, KeysTypeOK
  <2>2. \E i \in Slots : g_evq[g_evh] = g_held[i].key
    BY <2>1 DEF KeysInv, DownIsHeld
  <2>3. g_evq[g_evh] \in Keys
    BY <2>2, HeldSlots
  <2>4. QED BY <1>8, <2>1, <2>3 DEF ReturnPress, KeysTypeOK
<1>9. CASE ReturnRelease
  <2>1. PICK i \in Slots : g_held' = Dropped(i) /\ down' = down \ {g_held[i].key}
    BY <1>9 DEF ReturnRelease
  <2>2. Len(g_held) \in 1..HeldMax
    BY <2>1, SizeAssumption DEF Slots, KeysTypeOK
  <2>3. \A j \in 1..(Len(g_held) - 1) : Dropped(i)[j] \in Hold_t
    BY <2>1, <2>2, HeldSlots DEF Dropped, Slots
  <2>4. /\ Dropped(i) \in Seq(Hold_t)
        /\ Len(Dropped(i)) = Len(g_held) - 1
    BY <2>2, <2>3 DEF Dropped
  <2>5. QED BY <1>9, <2>1, <2>2, <2>4, SizeAssumption DEF ReturnRelease, KeysTypeOK
<1>10. CASE UNCHANGED keysVars
  BY <1>10 DEF keysVars, KeysTypeOK
<1>11. QED
  BY <1>1, <1>2, <1>3, <1>4, <1>5, <1>6, <1>7, <1>8, <1>9, <1>10 DEF KeysNext, Game
-----------------------------------------------------------------------------
(* Touching a key keeps the ring and the held keys in step. *)
LEMMA TouchKeeps ==
    ASSUME KeysTypeOK, KeysInv, NEW k \in Keys \cup {NoKey}, key_touch(k), down' = down
    PROVE  KeysInv'
<1> USE DEF ring
<1>1. CASE k # NoKey /\ Refresh(k)
  <2>1. PICK i \in Slots : g_held[i].key = k /\ g_held' = [g_held EXCEPT ![i].last = t]
    BY <1>1 DEF Refresh
  <2>2. Slots' = Slots /\ Len(g_held') = Len(g_held) /\ \A j \in Slots : g_held'[j].key = g_held[j].key
    <3>1. g_held \in Seq(Hold_t)
      BY DEF KeysTypeOK
    <3>2. g_held' = [g_held EXCEPT ![i] = [g_held[i] EXCEPT !.last = t]]
      BY <2>1
    <3>3. [g_held[i] EXCEPT !.last = t].key = g_held[i].key
      BY HeldSlots DEF Hold_t
    <3>4. Len(g_held') = Len(g_held) /\ Slots' = Slots
      BY <3>1, <3>2 DEF Slots
    <3>5. \A j \in Slots : g_held'[j] = IF j = i THEN [g_held[i] EXCEPT !.last = t] ELSE g_held[j]
      BY <3>1, <3>2 DEF Slots
    <3>6. QED BY <3>3, <3>4, <3>5
  <2>3. Pending' = Pending /\ Count' = Count /\ Succ(g_evt') = Succ(g_evt)
    BY <1>1 DEF Refresh, Pending, InRing, Count
  <2>4. PressesAlternate' /\ NeverFull'
    BY <1>1, <2>2, <2>3 DEF Refresh, KeysInv, PressesAlternate, NeverFull, Succ
  <2>5. HeldOnce'
    BY <2>2 DEF KeysInv, HeldOnce
  <2>6. {g_held'[j].key : j \in Slots'} = {g_held[j].key : j \in Slots}
    BY <2>2
  <2>7. DownIsHeld'
    BY <1>1, <2>3, <2>6 DEF Refresh, KeysInv, DownIsHeld
  <2>8. QED BY <2>4, <2>5, <2>7 DEF KeysInv
<1>2. CASE k # NoKey /\ Hold(k)
  <2> DEFINE n == Len(g_held)
  <2>1. Succ(g_evt) # g_evh /\ Count <= n /\ n \in Nat
    BY DEF KeysInv, NeverFull, KeysTypeOK
  <2>2. g_evh' = g_evh /\ g_evt' = Succ(g_evt) /\ g_evq' = [g_evq EXCEPT ![g_evt] = k]
    BY <1>2, <2>1 DEF Hold, ev_push
  <2>3. /\ g_evt \notin Pending /\ g_evt \in 0..(QSize - 1)
        /\ Pending' = Pending \cup {g_evt} /\ Count' = Count + 1
    BY <2>1, <2>2, RingPush
  <2>4. /\ Len(g_held') = n + 1 /\ Slots' = Slots \cup {n + 1}
        /\ g_held'[n + 1].key = k /\ \A j \in Slots : g_held'[j] = g_held[j]
    BY <1>2, <2>1 DEF Hold, Slots, KeysTypeOK
  <2>5. \A i \in Pending : g_evq'[i] = g_evq[i] /\ i \in 0..(QSize - 1)
    BY <2>2, <2>3 DEF Pending, KeysTypeOK
  <2>6. g_evq'[g_evt] = k
    BY <2>2, <2>3 DEF KeysTypeOK
  <2>7. k \notin down /\ \A i \in Pending : g_evq[i] # k
    BY <1>2 DEF Hold, IsHeld, KeysInv, DownIsHeld
  <2>8. PressesAlternate'
    <3>1. \A i \in Pending' : g_evq'[i] \notin down'
      BY <2>3, <2>5, <2>6, <2>7 DEF KeysInv, PressesAlternate
    <3>2. \A i, j \in Pending' : g_evq'[i] = g_evq'[j] => i = j
      BY <2>3, <2>5, <2>6, <2>7 DEF KeysInv, PressesAlternate
    <3>3. QED BY <3>1, <3>2 DEF PressesAlternate
  <2>9. HeldOnce'
    <3>1. \A j \in Slots : g_held[j].key # k /\ j # n + 1
      BY <1>2, <2>1 DEF Hold, IsHeld, Slots
    <3>2. \A i, j \in Slots \cup {n + 1} : g_held'[i].key = g_held'[j].key => i = j
      BY <2>4, <3>1 DEF KeysInv, HeldOnce
    <3>3. QED BY <2>4, <3>2 DEF HeldOnce
  <2>10. DownIsHeld'
    <3>1. {g_held'[j].key : j \in Slots'} = {g_held[j].key : j \in Slots} \cup {k}
      BY <2>4
    <3>2. {g_evq'[i] : i \in Pending'} = {g_evq[i] : i \in Pending} \cup {k}
      BY <2>3, <2>5, <2>6
    <3>3. QED BY <3>1, <3>2 DEF KeysInv, DownIsHeld
  <2>11. NeverFull'
    <3>1. Count' <= Len(g_held') /\ Len(g_held') <= HeldMax
      <4>1. n < HeldMax
        BY <1>2 DEF Hold
      <4>2. Count \in Int /\ HeldMax \in Nat
        BY SizeAssumption DEF Count, KeysTypeOK
      <4>3. QED BY <4>1, <4>2, <2>1, <2>3, <2>4
    <3>2. g_evt' \in 0..(QSize - 1) /\ g_evh' \in 0..(QSize - 1)
      BY <2>2, SuccType DEF KeysTypeOK
    <3>2a. Count' <= HeldMax
      <4>1. Count \in Int /\ HeldMax \in Nat
        BY SizeAssumption DEF Count, KeysTypeOK
      <4>2. QED BY <4>1, <2>1, <2>3, <2>4, <3>1
    <3>3. Succ(g_evt') # g_evh'
      BY <3>2, <3>2a, RingRoom DEF Count
    <3>4. QED BY <3>1, <3>3 DEF NeverFull, Succ
  <2>12. QED BY <2>8, <2>9, <2>10, <2>11 DEF KeysInv
<1>3. CASE Ignore(k)
  BY <1>3 DEF Ignore, KeysInv, PressesAlternate, DownIsHeld, NeverFull, HeldOnce, Slots,
     Pending, InRing, Count
<1>4. QED BY <1>1, <1>2, <1>3 DEF key_touch

(* A press the game takes leaves the ring and goes down. *)
LEMMA PressKeeps ==
    ASSUME KeysTypeOK, KeysInv, ReturnPress
    PROVE  KeysInv'
<1>1. /\ g_evh # g_evt /\ g_evt' = g_evt /\ g_evh' = Succ(g_evh) /\ g_evq' = g_evq
      /\ g_held' = g_held /\ down' = down \cup {g_evq[g_evh]}
  BY DEF ReturnPress
<1>2. g_evh \in Pending /\ Pending' = Pending \ {g_evh} /\ Count' = Count - 1
  BY <1>1, RingPop
<1>3. PressesAlternate'
  BY <1>1, <1>2 DEF KeysInv, PressesAlternate
<1>4. DownIsHeld'
  <2>1. {g_evq[i] : i \in Pending} = {g_evq[i] : i \in Pending \ {g_evh}} \cup {g_evq[g_evh]}
    BY <1>2
  <2>2. {g_evq'[i] : i \in Pending'} = {g_evq[i] : i \in Pending \ {g_evh}}
    BY <1>1, <1>2
  <2>3. {g_held'[i].key : i \in Slots'} = {g_held[i].key : i \in Slots}
    BY <1>1 DEF Slots
  <2>4. down \cup {g_evq[i] : i \in Pending} = {g_held[i].key : i \in Slots}
    BY DEF KeysInv, DownIsHeld
  <2>5. down' \cup {g_evq'[i] : i \in Pending'} = {g_held'[i].key : i \in Slots'}
    BY <1>1, <2>1, <2>2, <2>3, <2>4
  <2>6. QED BY <2>5 DEF DownIsHeld
<1>5. HeldOnce'
  BY <1>1 DEF KeysInv, HeldOnce, Slots
<1>6. NeverFull'
  <2>1. Count <= Len(g_held) /\ Count \in Int /\ Len(g_held) \in Nat
    BY SizeAssumption DEF KeysInv, NeverFull, Count, KeysTypeOK
  <2>2. Count' <= Len(g_held') /\ Len(g_held') <= HeldMax /\ Len(g_held') \in Nat
    BY <1>1, <1>2, <2>1 DEF KeysTypeOK
  <2>3. g_evt' \in 0..(QSize - 1) /\ g_evh' \in 0..(QSize - 1)
    BY <1>1, SizeAssumption DEF Succ, KeysTypeOK
  <2>4. Count' <= HeldMax
    BY <1>2, <2>1, <2>2, SizeAssumption
  <2>5. Succ(g_evt') # g_evh'
    BY <2>3, <2>4, RingRoom DEF Count
  <2>6. QED BY <2>2, <2>5 DEF NeverFull, Succ
<1>7. QED BY <1>3, <1>4, <1>5, <1>6 DEF KeysInv

(* A release leaves the ring, which is empty, and the other holds alone. *)
LEMMA ReleaseKeeps ==
    ASSUME KeysTypeOK, KeysInv, ReturnRelease
    PROVE  KeysInv'
<1>1. PICK i \in Slots : g_held' = Dropped(i) /\ down' = down \ {g_held[i].key}
  BY DEF ReturnRelease
<1>2. g_evh = g_evt /\ g_evh' = g_evh /\ g_evt' = g_evt /\ g_evq' = g_evq
  BY DEF ReturnRelease, ring
<1>3. Pending = {} /\ Count = 0 /\ Pending' = {} /\ Count' = 0
  <2>1. Pending = {} /\ Count = 0
    BY <1>2, RingEmpty
  <2>2. Pending' = Pending /\ Count' = Count
    BY <1>2 DEF Pending, InRing, Count
  <2>3. QED BY <2>1, <2>2
<1> DEFINE n == Len(g_held)
<1>4. n \in Nat /\ n >= 1 /\ i \in 1..n /\ Slots = 1..n
  BY <1>1 DEF Slots, KeysTypeOK
<1>5. Len(g_held') = n - 1 /\ Slots' = 1..(n - 1)
  <2>1. Dropped(i) \in [1..(n - 1) -> Hold_t]
    BY <1>4, HeldSlots DEF Dropped
  <2>2. Len(Dropped(i)) = n - 1
    BY <1>4, <2>1
  <2>3. QED BY <1>1, <2>2 DEF Slots
<1>6. \A j \in 1..(n - 1) : g_held'[j] = IF j = i THEN g_held[n] ELSE g_held[j]
  BY <1>1, <1>4 DEF Dropped
<1> HIDE DEF n
<1>7. \A j, k \in 1..n : g_held[j].key = g_held[k].key => j = k
  BY <1>4 DEF KeysInv, HeldOnce
<1>8. down = {g_held[j].key : j \in 1..n}
  BY <1>3, <1>4 DEF KeysInv, DownIsHeld
<1>9. HeldOnce'
  <2>1. ASSUME NEW j \in 1..(n - 1), NEW k \in 1..(n - 1), g_held'[j].key = g_held'[k].key
        PROVE  j = k
    <3> DEFINE src(m) == IF m = i THEN n ELSE m
    <3>1. src(j) \in 1..n /\ src(k) \in 1..n /\ (src(j) = src(k) => j = k)
      BY <1>4
    <3>2. g_held'[j] = g_held[src(j)] /\ g_held'[k] = g_held[src(k)]
      BY <1>6
    <3>3. src(j) = src(k)
      BY <1>7, <2>1, <3>1, <3>2
    <3>4. QED BY <3>1, <3>3
  <2>2. QED BY <1>5, <2>1 DEF HeldOnce
<1>10. {g_held'[j].key : j \in 1..(n - 1)} = {g_held[j].key : j \in 1..n} \ {g_held[i].key}
  <2>1. ASSUME NEW j \in 1..(n - 1)
        PROVE  \E k \in 1..n : g_held'[j].key = g_held[k].key /\ k # i
    <3>1. CASE j = i
      <4>1. n \in 1..n /\ n # i /\ g_held'[j] = g_held[n]
        BY <1>4, <1>6, <3>1
      <4>2. QED BY <4>1
    <3>2. CASE j # i
      <4>1. j \in 1..n /\ g_held'[j] = g_held[j]
        BY <1>4, <1>6, <3>2
      <4>2. QED BY <3>2, <4>1
    <3>3. QED BY <3>1, <3>2
  <2>2. ASSUME NEW k \in 1..n, k # i
        PROVE  \E j \in 1..(n - 1) : g_held'[j].key = g_held[k].key
    <3>1. CASE k = n
      <4>1. i \in 1..(n - 1) /\ g_held'[i] = g_held[k]
        BY <1>4, <1>6, <2>2, <3>1
      <4>2. QED BY <4>1
    <3>2. CASE k # n
      <4>1. k \in 1..(n - 1) /\ g_held'[k] = g_held[k]
        BY <1>4, <1>6, <2>2, <3>2
      <4>2. QED BY <4>1
    <3>3. QED BY <3>1, <3>2
  <2>3. \A k \in 1..n : g_held[k].key = g_held[i].key => k = i
    BY <1>4, <1>7
  <2>4. QED BY <2>1, <2>2, <2>3
<1>11. DownIsHeld'
  BY <1>1, <1>3, <1>5, <1>8, <1>10 DEF DownIsHeld
<1>12. PressesAlternate'
  BY <1>3 DEF PressesAlternate
<1>13. NeverFull'
  BY <1>2, <1>3, <1>4, <1>5 DEF KeysInv, NeverFull, Succ
<1>14. QED BY <1>9, <1>11, <1>12, <1>13 DEF KeysInv

(* Every step keeps the ring, the holds and the game's view in step. *)
LEMMA KeysStep == KeysTypeOK /\ KeysInv /\ [KeysNext]_keysVars => KeysInv'
<1> SUFFICES ASSUME KeysTypeOK, KeysInv, [KeysNext]_keysVars PROVE KeysInv'
  OBVIOUS
<1>1. CASE UNCHANGED <<g_held, ring, down>>
  BY <1>1, SMTT(30) DEF ring, KeysInv, PressesAlternate, DownIsHeld, NeverFull, HeldOnce, Slots,
     Pending, InRing, Count
<1>2. CASE ReadByte
  <2>1. CASE key_touch(map_key(Head(input)))
    BY <1>2, <2>1, KeyTypes, TouchKeeps DEF ReadByte
  <2>2. QED BY <1>1, <1>2, <2>1 DEF ReadByte
<1>3. CASE EscByte
  <2>1. CASE key_touch("escape")
    <3>1. "escape" \in Keys
      BY DEF Keys
    <3>2. QED BY <1>3, <2>1, <3>1, TouchKeeps DEF EscByte
  <2>2. CASE key_touch(map_key(Head(input)))
    BY <1>3, <2>2, KeyTypes, TouchKeeps DEF EscByte
  <2>3. QED BY <1>1, <1>3, <2>1, <2>2 DEF EscByte
<1>4. CASE CsiByte
  <2>1. CASE key_touch(csi_key(Head(input)))
    BY <1>4, <2>1, KeyTypes, TouchKeeps DEF CsiByte
  <2>2. QED BY <1>1, <1>4, <2>1 DEF CsiByte
<1>5. CASE ReturnPress
  BY <1>5, PressKeeps
<1>6. CASE ReturnRelease
  BY <1>6, ReleaseKeeps
<1>7. CASE (\E b \in Bytes : Type(b)) \/ Tick \/ DG_GetKey \/ ReturnNothing \/ UNCHANGED keysVars
  BY <1>1, <1>7 DEF keysVars, ring, Type, Tick, DG_GetKey, ReturnNothing
<1>8. QED
  BY <1>2, <1>3, <1>4, <1>5, <1>6, <1>7 DEF KeysNext, Game

(* The initial state: nothing held, nothing pending. *)
LEMMA KeysStart == KeysInit => KeysTypeOK /\ KeysInv
<1> SUFFICES ASSUME KeysInit PROVE KeysTypeOK /\ KeysInv
  OBVIOUS
<1>1. KeysTypeOK
  BY SizeAssumption DEF KeysInit, KeysTypeOK
<1>2. Pending = {} /\ Count = 0 /\ Slots = {} /\ Len(g_held) = 0
  BY <1>1, RingEmpty DEF KeysInit, Slots
<1>3. QED
  BY <1>1, <1>2, SizeAssumption
  DEF KeysInit, KeysInv, PressesAlternate, DownIsHeld, NeverFull, HeldOnce, Succ

(* Types are kept, and the ring, the holds and the game's view stay in step. *)
THEOREM KeysInvariant == KeysSpec => [](KeysTypeOK /\ KeysInv)
<1>1. KeysTypeOK /\ KeysInv /\ [KeysNext]_keysVars => (KeysTypeOK /\ KeysInv)'
  BY TypeStep, KeysStep
<1>2. QED BY <1>1, KeysStart, PTL DEF KeysSpec

(* The game sees presses and releases of every key alternate. *)
THEOREM KeysAlternate == KeysSpec => []PressesAlternate
<1>1. KeysInv => PressesAlternate
  BY DEF KeysInv
<1>2. QED BY <1>1, KeysInvariant, PTL

(* No key is stuck: what is pressed, or on its way, is what is held. *)
THEOREM NoKeyIsStuck == KeysSpec => []DownIsHeld
<1>1. KeysInv => DownIsHeld
  BY DEF KeysInv
<1>2. QED BY <1>1, KeysInvariant, PTL

(* ev_push always finds room. *)
THEOREM RingNeverFills == KeysSpec => []NeverFull
<1>1. KeysInv => NeverFull
  BY DEF KeysInv
<1>2. QED BY <1>1, KeysInvariant, PTL
=============================================================================
