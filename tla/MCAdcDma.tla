------------------------------ MODULE MCAdcDma ------------------------------
(* AdcDma with a block of two items: ADC1 converts continuously with DMA,   *)
(* ADC2 once and without; a block is circular or not, and memory is missing *)
(* under a circular one.                                                    *)
EXTENDS AdcDma
MCConfigs == [u \in {1, 2} |-> {[cont |-> u = 1, dma |-> u = 1]}]
MCPrograms == [mapped : BOOLEAN, circ : BOOLEAN]
                  \ {[mapped |-> FALSE, circ |-> FALSE]}
=============================================================================
