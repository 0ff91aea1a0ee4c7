---------------------------- MODULE MCEmailQueue ----------------------------
(* EmailQueue on small instances. *)
EXTENDS EmailQueue, TLC

CONSTANTS m1, m2

OneMail == {m1}
TwoMails == {m1, m2}

\* The mails are interchangeable.
MailSymmetry == Permutations(TwoMails)
=============================================================================
