------------------------------ MODULE MCChatPanel ------------------------------
EXTENDS Chat, TLC

MCInit == NoTurns /\ NoReply /\ Panel!Init

MCSpec ==
  /\ MCInit
  /\ [][Panel!Next /\ UNCHANGED <<vars, replyVars>>]_<<vars, replyVars, screenVars>>
  /\ Panel!Fairness
================================================================================
