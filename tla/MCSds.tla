------------------------------- MODULE MCSds -------------------------------
(* A small instance of Sds for TLC: headers whose fields are one to five     *)
(* bits wide.                                                                *)
EXTENDS Sds

SmallLimit == [t \in Type |-> <<2, 4, 6, 8, 64>>[t + 1]]
Sets == {{}, {"a"}}
Indexes == -3 .. 3
Upper == {[b \in Byte |-> IF b = "a" THEN "b" ELSE b]}

(* What the next call does depends on these alone; every step is checked     *)
(* against SdsSpec all the same.                                             *)
Memory == <<s, left, at>>
=============================================================================
