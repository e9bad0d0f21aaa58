-------------------------------- MODULE MCPwPlayer --------------------------------
EXTENDS PwPlayer
================================================================================
