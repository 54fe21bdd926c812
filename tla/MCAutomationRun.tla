-------------------------- MODULE MCAutomationRun --------------------------
EXTENDS AutomationRun

\* Every hour, and once.
MCSchedules == {Times, {MaxTime}}
=============================================================================
