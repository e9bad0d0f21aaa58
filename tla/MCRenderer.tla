------------------------------- MODULE MCRenderer -------------------------------
(* One frame to a time unit. *)
EXTENDS RendererReadings

Buf(t, n) == [ts |-> t, frames |-> n]

Unbroken == {<<Buf(3, 3), Buf(6, 2), Buf(8, 4)>>}

Steady == {<<Buf(2, 6), Buf(8, 6)>>}
================================================================================
