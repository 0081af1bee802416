--------------------------- MODULE MCOtpChallenges ---------------------------
(* Small instances of OtpChallenges. *)
EXTENDS OtpChallenges, TLC

CONSTANTS r1, r2, r3, s1, s2

TwoSends == {[s \in Sends |-> IF s = s1 THEN p[1] ELSE p[2]] : p \in {
    <<"signup", "signup">>, <<"signup", "login">>, <<"login", "login">>,
    <<"login", "forgot_password">>}}

RequestSymmetry == Permutations(Requests)

=============================================================================
