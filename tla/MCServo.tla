------------------------------- MODULE MCServo -------------------------------
(* Instances of Servo for TLC. *)
EXTENDS Servo

Kind(s, n, d, g, h, e) ==
    [sources |-> s, noise |-> n, drifts |-> d, gap |-> g, hold |-> h, ends |-> e]

DriveKinds == {
    Kind({"media"}, {0, 3, 6}, {0}, 5, 0, TRUE),
    Kind({"ptp"}, {0, 3, 6}, {-1, 0, 1}, 5, 0, TRUE),
    Kind({"media", "ptp"}, {0, 3}, {0}, 5, 0, FALSE),
    Kind({"media", "ptp"}, {0, 3}, {0}, 3, 1, FALSE)}

MediaOnly == {Kind({"media"}, {0}, {0}, 8, 0, TRUE)}

=============================================================================
