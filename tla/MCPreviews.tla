---------------------------- MODULE MCPreviews ----------------------------
EXTENDS Previews

CONSTANTS author, server, a, b
===========================================================================
