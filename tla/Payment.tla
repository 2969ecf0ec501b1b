------------------------------ MODULE Payment ------------------------------
(***************************************************************************)
(* The payment service keeps no state: it compares an amount, in cents,    *)
(* with a limit set when it starts.  A response other than HTTP 200 is     *)
(* "error".                                                                *)
(***************************************************************************)
EXTENDS Integers

CONSTANT DeclineOver   \* the -decline flag, in cents

ASSUME PaymentAssumption == DeclineOver \in Nat

\* Mutant of Authorise: there is no limit.
AuthoriseAny(amount) == IF amount <= 0 THEN "error" ELSE "authorised"

\* service.Authorise
Authorise(amount) ==
    IF amount <= 0 THEN "error"
    ELSE IF amount <= DeclineOver THEN "authorised" ELSE "declined"

\* POST /paymentAuth: a missing amount decodes to 0 and is refused at once.
PaymentAuth(amount) == IF amount = 0 THEN "error" ELSE Authorise(amount)
=============================================================================
