---------------------------- MODULE MCOnboarding ----------------------------
(* Instances of Onboarding for TLC.                                        *)
EXTENDS Onboarding, TLC

CONSTANTS c1, c2, d1, d2, v1, v2

(* The name "Login" gives the slugs login, which is reserved, and offer;   *)
(* "Promo" only promo (the loop of 50 rounds is cut to two and one).       *)
Names == "Login" :> <<"login", "offer">> @@ "Promo" :> <<"promo">>
=============================================================================
