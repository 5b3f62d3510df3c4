--------------------------- MODULE MCCoordinator ----------------------------
EXTENDS Coordinator
CONSTANTS a, b
MCMalformed == {<<a, 1>>}
=============================================================================
