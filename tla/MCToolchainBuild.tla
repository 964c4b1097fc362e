-------------------------- MODULE MCToolchainBuild --------------------------
EXTENDS ToolchainBuild
=============================================================================
