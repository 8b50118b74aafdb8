------------------------------ MODULE MCDeviceRead ------------------------------
(* Instances of DeviceRead for TLC: both kinds of device, or one.          *)
EXTENDS DeviceRead

LitterAndFeeder == {"CatLitter", "petFeeder"}
=============================================================================
