------------------------------ MODULE MCReportPdf ------------------------------
(* One report, the attempts to render it, a cleaner that sweeps after them and *)
(* an operator who may remove its case.                                        *)
EXTENDS ReportPdf, TLC
=================================================================================
