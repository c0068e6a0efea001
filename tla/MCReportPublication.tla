------------------------ MODULE MCReportPublication ------------------------
EXTENDS ReportPublication
=============================================================================
