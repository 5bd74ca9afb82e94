------------------------------ MODULE MCIngest ------------------------------
(***************************************************************************)
(* Two sessions on a road of six cells through three zones.                *)
(*                                                                         *)
(* The long one has four fixes. The second is thrown away (accuracy 200),  *)
(* so the first pair bridges it and crosses from PRIME into SECONDARY; the *)
(* last pair crosses into NETWORK and ends on a QUESTIONABLE fix.          *)
(* The short one has three good fixes, the middle one within reach of the  *)
(* other two, and the outer two within reach of each other.                *)
(***************************************************************************)
EXTENDS IngestOdometer, TLC

MCZoneAt == [c \in 0 .. 5 |-> CASE c < 2 -> "PRIME" [] c \in 2 .. 3 -> "SECONDARY"
                                [] OTHER -> "NETWORK"]
MCRate == [z \in Zones |-> CASE z = "PRIME" -> 5 [] z = "SECONDARY" -> 3 [] OTHER -> 1]

LongFixes == 1 .. 4
LongRecordedAt == <<10, 20, 30, 40>>
LongPlace == <<0, 1, 3, 6>>
LongAccuracyM == <<10, 200, 10, 60>>

ShortFixes == 1 .. 3
ShortRecordedAt == <<10, 20, 30>>
ShortPlace == <<0, 3, 1>>
ShortAccuracyM == <<10, 10, 10>>

CallsAlike == Permutations(Calls)
=============================================================================
