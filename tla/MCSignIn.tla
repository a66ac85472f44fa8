-------------------------------- MODULE MCSignIn --------------------------------
(* SignIn for TLC: what a constant's members are called makes no difference. *)
EXTENDS SignIn, TLC

SignInSymmetry ==
    Permutations(Browsers) \cup Permutations(Subjects) \cup Permutations(Emails)
        \cup Permutations(Googles)
=============================================================================
