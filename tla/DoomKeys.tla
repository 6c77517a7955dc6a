------------------------------ MODULE DoomKeys -------------------------------
(***************************************************************************)
(* Keyboard input of the DOOM port (guest/pkgs/doom/doomgeneric_osmoap.c). *)
(* A terminal has no key-up events: a key is held for DOOM_HOLD_MS after   *)
(* its last byte, and then its release is synthesized.  Presses wait in a  *)
(* ring; the game drains both with DG_GetKey.                              *)
(*                                                                         *)
(* Bytes and DOOM keys are named by strings.  The clock is DG_GetTicksMs,  *)
(* a counter that wraps (at 2^32 in the code, at Modulus here).            *)
(***************************************************************************)
EXTENDS Integers, Sequences

CONSTANTS
    Bytes,      \* what the user types
    HeldMax,    \* HELD_MAX
    QSize,      \* slots of g_evq
    Modulus,    \* where the clock wraps
    HoldMs,     \* g_hold_ms
    MaxLag,     \* bound on the ticks between two samples of the clock
    MaxTyped    \* bound on the bytes of a behaviour

ASSUME SizeAssumption ==
    /\ HeldMax \in Nat /\ QSize \in Nat /\ HeldMax + 1 < QSize
    /\ Modulus \in Nat /\ HoldMs \in Nat /\ MaxLag \in Nat /\ MaxTyped \in Nat
    /\ HoldMs + MaxLag < Modulus

VARIABLES
    now,                  \* the clock
    lag,                  \* ticks since DG_GetKey last read it
    input, typed,         \* bytes in the terminal; how many were typed
    pc,                   \* where DG_GetKey is; "game" outside of it
    t,                    \* DG_GetKey's now
    g_held,               \* the held keys, with the time of their last byte
    g_evq, g_evh, g_evt,  \* the ring of pending presses
    down                  \* the keys the game takes to be pressed

keysVars == <<now, lag, input, typed, pc, t, g_held, g_evq, g_evh, g_evt, down>>
ring == <<g_evq, g_evh, g_evt>>
clock == <<now, lag>>

NoKey == "none"

Digits == {"1", "2", "3", "4", "5", "6", "7", "8"}

map_key(c) ==
    CASE c \in {"w", "W"} -> "up"
      [] c \in {"s", "S"} -> "down"
      [] c \in {"a", "A"} -> "strafe_l"
      [] c \in {"d", "D"} -> "strafe_r"
      [] c = " " -> "fire"
      [] c \in {"e", "E"} -> "use"
      [] c \in {"r", "R"} -> "run"
      [] c \in {"CR", "LF"} -> "enter"
      [] c = "TAB" -> "tab"
      [] c \in Digits \cup {"y", "n", "p"} -> c
      [] OTHER -> NoKey

(* The third byte of a CSI sequence. *)
csi_key(c) ==
    CASE c = "A" -> "up"
      [] c = "B" -> "down"
      [] c = "C" -> "right"
      [] c = "D" -> "left"
      [] OTHER -> NoKey

Keys == {"up", "down", "strafe_l", "strafe_r", "fire", "use", "run", "enter", "tab",
         "y", "n", "p", "right", "left", "escape"} \cup Digits

Hold_t == [key : Keys, last : 0..(Modulus - 1)]   \* a slot of g_held
-----------------------------------------------------------------------------
KeysInit ==
    /\ now = 0 /\ lag = 0 /\ input = <<>> /\ typed = 0
    /\ pc = "game" /\ t = 0
    /\ g_held = <<>>
    /\ g_evq = [i \in 0..(QSize - 1) |-> NoKey] /\ g_evh = 0 /\ g_evt = 0
    /\ down = {}

(* (i + 1) & 63 *)
Succ(i) == IF i = QSize - 1 THEN 0 ELSE i + 1

ev_push(k) ==
    IF Succ(g_evt) # g_evh
    THEN g_evq' = [g_evq EXCEPT ![g_evt] = k] /\ g_evt' = Succ(g_evt)
    ELSE UNCHANGED <<g_evq, g_evt>>

Slots == 1..Len(g_held)

IsHeld(k) == \E i \in Slots : g_held[i].key = k

(* Mutant: autorepeat presses again. *)
RefreshPress(k) ==
    /\ \E i \in Slots : g_held[i].key = k /\ g_held' = [g_held EXCEPT ![i].last = t]
    /\ ev_push(k)
    /\ UNCHANGED g_evh

(* key_touch: refresh a held key, press a new one, or drop it when HELD_MAX *)
(* keys are held.                                                           *)
Refresh(k) ==
    /\ \E i \in Slots : g_held[i].key = k /\ g_held' = [g_held EXCEPT ![i].last = t]
    /\ UNCHANGED ring

Hold(k) ==
    /\ ~IsHeld(k) /\ Len(g_held) < HeldMax
    /\ g_held' = Append(g_held, [key |-> k, last |-> t])
    /\ ev_push(k)
    /\ UNCHANGED g_evh

Ignore(k) ==
    /\ k = NoKey \/ (~IsHeld(k) /\ Len(g_held) = HeldMax)
    /\ UNCHANGED <<g_held, ring>>

key_touch(k) == (k # NoKey /\ (Refresh(k) \/ Hold(k))) \/ Ignore(k)
-----------------------------------------------------------------------------
(* The user types; the terminal queues the byte at any time. *)
Type(b) ==
    /\ pc # "exit" /\ typed < MaxTyped
    /\ input' = Append(input, b) /\ typed' = typed + 1
    /\ UNCHANGED <<clock, pc, t, g_held, ring, down>>

Tick ==
    /\ lag < MaxLag
    /\ now' = (now + 1) % Modulus /\ lag' = lag + 1
    /\ UNCHANGED <<input, typed, pc, t, g_held, ring, down>>

(* The game calls DG_GetKey, which reads the clock once. *)
DG_GetKey ==
    /\ pc = "game"
    /\ pc' = "pump" /\ t' = now /\ lag' = 0
    /\ UNCHANGED <<now, input, typed, g_held, ring, down>>

(* pump_input: one byte; ^C exits, ESC waits for what follows. *)
ReadByte ==
    /\ pc = "pump" /\ input # <<>>
    /\ input' = Tail(input)
    /\ CASE Head(input) = "^C" -> pc' = "exit" /\ UNCHANGED <<g_held, ring>>
         [] Head(input) = "ESC" -> pc' = "esc" /\ UNCHANGED <<g_held, ring>>
         [] OTHER -> key_touch(map_key(Head(input))) /\ UNCHANGED pc
    /\ UNCHANGED <<clock, typed, t, down>>

(* The byte after ESC, or none within the timeout: a lone ESC. *)
EscByte ==
    /\ pc = "esc"
    /\ \/ /\ input = <<>>
          /\ key_touch("escape") /\ pc' = "pump" /\ UNCHANGED input
       \/ /\ input # <<>> /\ Head(input) = "["
          /\ pc' = "csi" /\ input' = Tail(input) /\ UNCHANGED <<g_held, ring>>
       \/ /\ input # <<>> /\ Head(input) # "["
          /\ key_touch(map_key(Head(input))) /\ pc' = "pump" /\ input' = Tail(input)
    /\ UNCHANGED <<clock, typed, t, down>>

(* The byte after ESC [, or none within the timeout. *)
CsiByte ==
    /\ pc = "csi"
    /\ \/ input = <<>> /\ UNCHANGED <<input, g_held, ring>>
       \/ /\ input # <<>>
          /\ key_touch(csi_key(Head(input))) /\ input' = Tail(input)
    /\ pc' = "pump"
    /\ UNCHANGED <<clock, typed, t, down>>

(* Mutant: now > last + g_hold_ms, which fails across the wrap. *)
ExpiredNoWrap(i) == t > g_held[i].last + HoldMs

(* now - last > g_hold_ms, on unsigned integers. *)
Expired(i) == (t - g_held[i].last) % Modulus > HoldMs

(* Mutant: the slot is freed without moving the last one into it. *)
DroppedLast(i) == [j \in 1..(Len(g_held) - 1) |-> g_held[j]]

(* g_held[i] = g_held[--g_nheld] *)
Dropped(i) ==
    [j \in 1..(Len(g_held) - 1) |-> IF j = i THEN g_held[Len(g_held)] ELSE g_held[j]]

(* DG_GetKey once the terminal is drained: a queued press first, *)
ReturnPress ==
    /\ pc = "pump" /\ input = <<>>
    /\ g_evh # g_evt
    /\ down' = down \cup {g_evq[g_evh]}
    /\ g_evh' = Succ(g_evh)
    /\ pc' = "game"
    /\ UNCHANGED <<clock, input, typed, t, g_held, g_evq, g_evt>>

(* Mutant: releases do not wait for the queued presses. *)
ReturnReleaseFirst ==
    /\ pc = "pump" /\ input = <<>>
    /\ \E i \in Slots :
          /\ Expired(i) /\ \A j \in 1..(i - 1) : ~Expired(j)
          /\ g_held' = Dropped(i)
          /\ down' = down \ {g_held[i].key}
    /\ pc' = "game"
    /\ UNCHANGED <<clock, input, typed, t, ring>>

(* else the release of the first expired hold, *)
ReturnRelease ==
    /\ pc = "pump" /\ input = <<>>
    /\ g_evh = g_evt
    /\ \E i \in Slots :
          /\ Expired(i) /\ \A j \in 1..(i - 1) : ~Expired(j)
          /\ g_held' = Dropped(i)
          /\ down' = down \ {g_held[i].key}
    /\ pc' = "game"
    /\ UNCHANGED <<clock, input, typed, t, ring>>

(* else nothing. *)
ReturnNothing ==
    /\ pc = "pump" /\ input = <<>>
    /\ g_evh = g_evt /\ \A i \in Slots : ~Expired(i)
    /\ pc' = "game"
    /\ UNCHANGED <<clock, input, typed, t, g_held, ring, down>>

Game == DG_GetKey \/ ReadByte \/ EscByte \/ CsiByte \/ ReturnPress \/ ReturnRelease \/ ReturnNothing

KeysNext == Game \/ Tick \/ \E b \in Bytes : Type(b)

(* main calls doomgeneric_Tick for ever, and time passes. *)
KeysSpec == KeysInit /\ [][KeysNext]_keysVars
KeysFairSpec == KeysSpec /\ WF_keysVars(Game) /\ WF_keysVars(Tick)
-----------------------------------------------------------------------------
InRing(i) == IF g_evh <= g_evt THEN g_evh <= i /\ i < g_evt ELSE g_evh <= i \/ i < g_evt

Pending == {i \in 0..(QSize - 1) : InRing(i)}

Count == IF g_evh <= g_evt THEN g_evt - g_evh ELSE g_evt - g_evh + QSize

KeysTypeOK ==
    /\ now \in 0..(Modulus - 1) /\ t \in 0..(Modulus - 1) /\ lag \in 0..MaxLag
    /\ input \in Seq(Bytes) /\ typed \in 0..MaxTyped
    /\ pc \in {"game", "pump", "esc", "csi", "exit"}
    /\ g_held \in Seq(Hold_t) /\ Len(g_held) <= HeldMax
    /\ g_evq \in [0..(QSize - 1) -> Keys \cup {NoKey}]
    /\ g_evh \in 0..(QSize - 1) /\ g_evt \in 0..(QSize - 1)
    /\ down \subseteq Keys

(* The game sees presses and releases of a key alternate: what waits in the *)
(* ring are presses of distinct keys that are up, so no press comes twice,  *)
(* and no release can come before its press (doomgeneric_osmoap.c:138-151). *)
PressesAlternate ==
    /\ \A i \in Pending : g_evq[i] \notin down
    /\ \A i, j \in Pending : g_evq[i] = g_evq[j] => i = j

(* The keys the game takes to be pressed, with the presses on their way,    *)
(* are those held: none is stuck without a hold that would release it, and  *)
(* none is held that the game will not hear of.                             *)
DownIsHeld ==
    down \cup {g_evq[i] : i \in Pending} = {g_held[i].key : i \in Slots}

(* The ring never fills, so ev_push never drops a press of a held key. *)
NeverFull == Count <= Len(g_held) /\ Succ(g_evt) # g_evh

(* Keys are held once, by the search of key_touch. *)
HeldOnce == \A i, j \in Slots : g_held[i].key = g_held[j].key => i = j

(* The inductive invariant. *)
KeysInv == PressesAlternate /\ DownIsHeld /\ NeverFull /\ HeldOnce

(* Once the user stops typing every key comes up, across the wrap of the    *)
(* clock and whatever is still in the ring (or the game was quit).          *)
AllReleased == <>[](pc = "exit" \/ (down = {} /\ g_held = <<>>))
=============================================================================
