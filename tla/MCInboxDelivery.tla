-------------------------- MODULE MCInboxDelivery --------------------------
(* InboxDelivery for TLC: the kinds of event and the requests of each run.   *)
EXTENDS InboxDelivery

NoRequests == {}
FirstEvent == {1}
HumanOnly == {"human"}
ReportOnly == {"report"}
HumanAndReport == {"human", "report"}
AllKinds == Kind \ {"distill"}
=============================================================================
