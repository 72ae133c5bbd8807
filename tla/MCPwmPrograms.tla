--------------------------- MODULE MCPwmPrograms ---------------------------
(***************************************************************************)
(* The programs with their own periods and notes; of the samples of a WAV  *)
(* file the least, the greatest, the middle and one between.               *)
(***************************************************************************)
EXTENDS PwmPrograms

AllPrograms == {"led_brightness", "mono_music", "pwm_play_music"}
EdgeSamples == {-32768, -1, 12345, 32767}
=============================================================================
