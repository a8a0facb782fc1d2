-------------------------- MODULE MCMonitoringApi --------------------------
(* Two monitors: "disk_io", which gives up alone, and "power", which ends   *)
(* the application on an error and may skip samples.  MCMonitoringApiLoss   *)
(* also has a metric that the library does not know.                        *)
EXTENDS MonitoringApi
=============================================================================
