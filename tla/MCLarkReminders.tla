--------------------------- MODULE MCLarkReminders ---------------------------
EXTENDS LarkReminders, TLC

CONSTANTS a1

=============================================================================
