------------------------ MODULE MCPaymentOperations ------------------------
(* Instances of PaymentOperations: which operations exist and what they ask. *)
EXTENDS PaymentOperations, TLC

TwoCaptures == [o \in {"cap1", "cap2"} |-> "capture"]
EveryKind ==
    ("cap" :> "capture") @@ ("over" :> "capture") @@ ("ref" :> "refund") @@ ("cxl" :> "cancel")

\* The first capture takes a part, the second asks for whatever remains.
PartAndRest == ("cap1" :> 2) @@ ("cap2" :> 0)

\* Two captures that together ask for more than was authorised.
Parts == [o \in {"cap1", "cap2"} |-> 2]

\* One capture leaves its amount out, one asks for more than was ever authorised.
WholeAndExcess == [o \in DOMAIN EveryKind |-> IF o = "over" THEN 3 ELSE 0]

WorkerSymmetry == Permutations(Workers)

=============================================================================
