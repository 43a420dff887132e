---------------------------- MODULE HcuEbarrier ----------------------------
(***************************************************************************)
(* The execution barrier of hcu_ebarrier.hpp.  A work group owns a few     *)
(* barrier slots; an instruction names a slot and the number of wave       *)
(* arrivals that complete it.  arrive() counts the wave and lets it go on, *)
(* sync() counts it and stalls it until the slot completes.  A completed   *)
(* slot is empty again, ready for its next phase.                          *)
(*                                                                         *)
(* The slot does not know WHICH waves arrived: it only counts.  A wave     *)
(* that arrives twice in one phase completes it on behalf of another.      *)
(***************************************************************************)
EXTENDS Naturals

\* ebarrier_slot: an invalid (free) slot expects nobody
FreeSlot == [expected |-> 0, pending |-> 0, waiting |-> {}]

\* the arrival of one wave, which stalls if it is in "stalls"
Arrival(slot, wv_cnt, stalls) ==
  IF slot.pending + 1 >= wv_cnt
  THEN FreeSlot
  ELSE [expected |-> wv_cnt,
        pending  |-> slot.pending + 1,
        waiting  |-> slot.waiting \union stalls]

\* s_ebarrier_arrive and s_ebarrier_sync
EbarArrive(slot, wv_cnt) == Arrival(slot, wv_cnt, {})
EbarSync(slot, wv_cnt, wave) == Arrival(slot, wv_cnt, {wave})
=============================================================================
