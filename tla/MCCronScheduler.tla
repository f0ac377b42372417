-------------------------- MODULE MCCronScheduler ---------------------------
(* TLC instance of CronScheduler: ten seconds are one unit of time. *)
EXTENDS CronScheduler, TLC
=============================================================================
