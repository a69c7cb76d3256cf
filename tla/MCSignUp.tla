------------------------------- MODULE MCSignUp -------------------------------
(***************************************************************************)
(* The addresses of a small instance of SignUp are interchangeable.        *)
(***************************************************************************)
EXTENDS SignUp, TLC

EmailSymmetry == Permutations(Emails)

=============================================================================
