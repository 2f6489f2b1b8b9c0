------------------------------ MODULE MCDisplays ------------------------------
(* A small instance of Displays: two screens, settings that reach both the  *)
(* free and the capped window.                                              *)
EXTENDS Displays

MCGeometries == {[x |-> 0, y |-> 0, width |-> 1920, height |-> 1080],
                 [x |-> 1920, y |-> 0, width |-> 800, height |-> 600],
                 [x |-> 1920, y |-> 40, width |-> 1920, height |-> 1080]}

MCDefault == [corner |-> "top-right", marginX |-> 0, marginY |-> 0, screen |-> "",
              ringSize |-> 180, count |-> 4, vertical |-> TRUE, spread |-> 0,
              fontScale |-> 100, cores |-> 7]
MCStored == {MCDefault,
             [MCDefault EXCEPT !.corner = "bottom-left", !.marginX = 30, !.spread = 65,
                               !.screen = "B", !.cores = 24, !.vertical = FALSE]}

Used(block, total, free, reserved) ==
  [block |-> block, total |-> total, free |-> free, available |-> free - reserved]
MCDisks == {Used(1, 1, 1, 0), Used(1, 10188, 300, 0), Used(1, 1023, 511, 11), Used(32, 32752, 2000, 1500),
            Used(512, 2046, 2046, 100), Used(512, 2047, 1000, 1000), Used(4096, 30000, 29000, 1500),
            Used(4096, 9000, 20, 20)}
MCRates == {1, 99, 999, 1000, 9994, 99960, 999499, 999500, 12345678}
MCRecords == {[pid |-> 1, vram |-> 5], [pid |-> 1, vram |-> 7], [pid |-> 2, vram |-> 5], [pid |-> 3, vram |-> 0]}
=============================================================================
