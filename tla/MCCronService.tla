---------------------------- MODULE MCCronService ----------------------------
(* Constants for model-checking CronService. *)
EXTENDS CronService

At(t) == [kind |-> "at", at |-> t]
Every(p) == [kind |-> "every", period |-> p]
Cron(p) == [kind |-> "cron", period |-> p]

AllSchedules == {At(2), Every(1), Cron(2), Cron(0)}
Recurring == {Every(1)}
OneShot == {At(2)}
=============================================================================
