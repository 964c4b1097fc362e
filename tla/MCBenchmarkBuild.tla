-------------------------- MODULE MCBenchmarkBuild --------------------------
EXTENDS BenchmarkBuild
=============================================================================
