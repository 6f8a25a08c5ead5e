-------------------------- MODULE MCRegistryServer --------------------------
(***************************************************************************)
(* RegistryServer with two registers of eight bits, of which a calibration *)
(* changes one, and a key that is not in the table.  Two values stand for  *)
(* the 256 of eight bits.                                                  *)
(* That no two keys of the table have one hash is evaluated here.          *)
(***************************************************************************)
EXTENDS RegistryServer, TLC

\* DEFINE_REGISTRY
Table ==
    {"WIFI_AP_SSID", "WIFI_AP_PASS", "WIFI_AP_AUTHMODE", "WIFI_AP_MAX_CONN",
     "WIFI_AP_CHANNEL", "WIFI_ST_SSID", "WIFI_ST_PASS", "WIFI_ST_AUTHMODE",
     "WIFI_ST_MAX_RETRYS", "WIFI_MODE", "MPU_HAS_CALIBRATION",
     "MPU_GYROFFSET_X", "MPU_GYROFFSET_Y", "MPU_GYROFFSET_Z",
     "MPU_ACCOFFSET_X", "MPU_ACCOFFSET_Y", "MPU_ACCOFFSET_Z",
     "PID_ANGLE_KP", "PID_ANGLE_KI", "PID_ANGLE_KD", "PID_ANGLE_EPSILON",
     "PID_RATE_KP", "PID_RATE_KI", "PID_RATE_KD", "PID_RATE_EPSILON", "PID_YAWRATE_KP"}

\* The character codes of a key.
Alphabet == "ABCDEFGHIJKLMNOPQRSTUVWXYZ"
Code(c) ==
    IF c = "_" THEN 95
    ELSE 64 + CHOOSE n \in 1 .. 26 : SubSeq(Alphabet, n, n) = c
Codes(str) == [i \in 1 .. Len(str) |-> Code(SubSeq(str, i, i))]

ASSUME NoTwoKeysOfOneHash ==
    \A k, l \in Table :
        k # l => reg_calc_hashcode(Codes(k)) # reg_calc_hashcode(Codes(l))

Mode == Codes("WIFI_MODE")
Has == Codes("MPU_HAS_CALIBRATION")

MCRegisters == {Mode, Has}
MCStrangers == {Codes("MPU")}
MCLimit == (Mode :> 2) @@ (Has :> 2)
MCDefault == (Mode :> 0) @@ (Has :> 0)
MCCalibrated == {Has}
=============================================================================
