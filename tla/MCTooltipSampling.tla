-------------------------- MODULE MCTooltipSampling --------------------------
(***************************************************************************)
(* The strip as settings and availability can change it under the pointer: *)
(* everything shown, rings with tooltips removed one by one, none left.    *)
(***************************************************************************)
EXTENDS TooltipSampling

MCStrips ==
    { Rings,
      Rings \ {"cpu"},
      Rings \ {"disk"},
      Rings \ {"gpu", "diskIo"},
      {"ram", "diskIo"},
      {} }

=============================================================================
