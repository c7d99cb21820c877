----------------------------- MODULE MCEventLoop -----------------------------
(* Small instances of EventLoop for TLC.  MaxExpirys and PollLimit are       *)
(* scaled down from 10 and 20 so that a pass and a poll set can reach them.  *)
EXTENDS EventLoop
==============================================================================
