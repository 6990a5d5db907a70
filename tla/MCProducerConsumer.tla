-------------------------- MODULE MCProducerConsumer --------------------------
(* Instances of ProducerConsumer for TLC; the .cfg files choose the sizes. *)
EXTENDS ProducerConsumer
=============================================================================
