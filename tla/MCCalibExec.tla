----------------------------- MODULE MCCalibExec -----------------------------
(* The TLC instance of CalibExec.  SendFailures is that of a custom HAL: it  *)
(* includes the ESP32 HAL's, which reports every failed send as COMM_FAIL.   *)
EXTENDS CalibExec

CustomFailures == {"COMM_FAIL", "RX_NO_RESPONSE"}
=============================================================================
