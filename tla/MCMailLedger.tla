----------------------------- MODULE MCMailLedger ------------------------------
(***************************************************************************)
(* Two requests and the cron, one letter of an event, whose draft may be   *)
(* completed by either, and a sweep of one licence.                        *)
(***************************************************************************)
EXTENDS MailLedger

CONSTANT expiring

MCSweeps == <<{expiring}>>
================================================================================
