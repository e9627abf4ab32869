----------------------------- MODULE MCSupervisor -----------------------------
EXTENDS Supervisor
MCImageOf == <<"i1", "i1", "i1", "i1", "i1">>
===============================================================================
