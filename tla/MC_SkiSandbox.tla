---------------------------- MODULE MC_SkiSandbox ----------------------------
EXTENDS SkiSandbox

\* User code touches the global its handler is read from, the Request
\* constructor and the console runHandler uses, besides the entry point.
MCUserNames == {"Request", "handler", "console"}
=============================================================================
