--------------------------- MODULE MCCallbackLatch ---------------------------
(* A latch with several waiters, whose timeouts race the callbacks.          *)
EXTENDS CallbackLatch
=============================================================================
