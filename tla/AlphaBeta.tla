----------------------------- MODULE AlphaBeta ------------------------------
(***************************************************************************)
(* One analog channel of MPIOVD: alphabeta_q31 of src/soft/mpiovd/src/dsp/ *)
(* dsp.c, as adc_local.c calls it for each sweep.  The accumulator is 32   *)
(* bits wide, what comes out 16.  The length of the filter is a parameter, *)
(* which may be set while the sweeps go on and is not told to the          *)
(* accumulator.                                                            *)
(***************************************************************************)
EXTENDS Integers

CONSTANTS
  Rest,        (* ADC_REST                                                 *)
  MaxSample,   (* the greatest sample                                      *)
  MaxLen,      (* the longest filter                                       *)
  Half,        (* half of what the accumulator counts, 2^31                *)
  OutModulus,  (* what the output counts, 2^16                             *)
  MaxChanges   (* a bound: how often the input or the length changes       *)

FilterAssumption ==
  /\ {Rest, MaxSample, MaxLen, Half, OutModulus, MaxChanges} \subseteq Nat
  /\ MaxSample < OutModulus /\ Half > 0

(* "No saturation": the accumulator has room for the lengths that are      *)
(* used.                                                                   *)
RoomAssumption ==
  /\ \A l \in 0 .. MaxLen : 2^l \in Nat \ {0}
  /\ \A l \in 0 .. MaxLen : (Rest + MaxSample + 1) * 2^l <= Half

Samples == 0 .. MaxSample
Lengths == 0 .. MaxLen

VARIABLES
  sample,    (* in[i]                                                      *)
  flen,      (* *flen[i]                                                   *)
  S,         (* adc_filter[i]                                              *)
  out,       (* raw_data.analog[i]                                         *)
  changes

vars == <<sample, flen, S, out, changes>>

Init ==
  /\ sample \in Samples /\ flen \in Lengths
  /\ S = 0 /\ out = 0 /\ changes = 0

-----------------------------------------------------------------------------
Wrapped(x) == ((x + Half) % (2 * Half)) - Half

Shifted(x, len) == x \div (2^len)

NeverLess(x, val, len) == Wrapped(x + val)

Accumulated(x, val, len) == Wrapped(x - Shifted(x, len) + val)

(* _adc_filter; the sweeps it drops are in Contacts.                       *)
Filter ==
  /\ S' = Accumulated(S, sample + Rest, flen)
  /\ out' = (Shifted(S', flen) - Rest) % OutModulus
  /\ UNCHANGED <<sample, flen, changes>>

MayChange == changes < MaxChanges /\ changes' = changes + 1

Changes ==
  /\ MayChange /\ sample' \in Samples \ {sample}
  /\ UNCHANGED <<flen, S, out>>

(* AN_chNN_flen is set.                                                    *)
SetLength ==
  /\ MayChange /\ flen' \in Lengths \ {flen}
  /\ UNCHANGED <<sample, S, out>>

Next == Filter \/ Changes \/ SetLength

Spec == Init /\ [][Next]_vars

(* The sweeps never stop.                                                  *)
FairSpec == Spec /\ WF_vars(Filter)

-----------------------------------------------------------------------------
(* dsp.c:46-47: the accumulator holds what the filter of its length gives  *)
(* for samples between 0 and MaxSample.                                    *)
InRange == S \in Rest * 2^flen .. (Rest + MaxSample + 1) * 2^flen - 1

(* adc_local.c:37, "the rest": once a channel shows what can come from     *)
(* samples it goes on so while its length is left alone, whatever the      *)
(* samples are; neither end of the range is ever overrun.                  *)
StaysInRange == [][InRange /\ flen' = flen => InRange']_vars

(* adc_local.c:138: from 0, from another length, from anywhere, the output *)
(* comes to the input and stays there.                                     *)
Converges == <>[](out = sample)
=============================================================================
