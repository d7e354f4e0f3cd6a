--------------------------- MODULE MCMonitorViews ---------------------------
EXTENDS MonitorViews
CONSTANTS cpu, memory, diskio
MCFirstOrder == <<cpu, memory, diskio>>
=============================================================================
