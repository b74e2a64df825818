------------------------- MODULE MCProducerConsumer -------------------------
(* The instance of ProducerConsumer for TLC: fewer producers than consumers, *)
(* fewer slots than items, so that threads of both kinds wait.               *)
EXTENDS ProducerConsumer

=============================================================================
