------------------------ MODULE MCProducerConsumer ------------------------
(***************************************************************************)
(* The restaurant with small trays; the second menu is a single dish, the  *)
(* kind of a dish deciding nothing.                                        *)
(***************************************************************************)
EXTENDS ProducerConsumer, TLC

MCMenu    == ("Vegan" :> {11, 12}) @@ ("NON_Vegan" :> {21})
PlainMenu == ("Vegan" :> {11}) @@ ("NON_Vegan" :> {21})

AllForked == Child
\* producer_NON_Vegan and consumer_NON_Vegan failed to fork.
VeganOnly == {"producer_Vegan", "consumer_Vegan", "consumer_Both"}
=============================================================================
