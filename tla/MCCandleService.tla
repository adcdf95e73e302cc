--------------------------- MODULE MCCandleService ---------------------------
(* Five quotes over four minutes, of which three are kept: minutes are     *)
(* skipped, come late, come after they were cut.                           *)
EXTENDS CandleService
=============================================================================
