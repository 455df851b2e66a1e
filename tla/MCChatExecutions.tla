-------------------------- MODULE MCChatExecutions --------------------------
\* Two workspaces of one computer, and the bot's own profile.
EXTENDS ChatExecutions, TLC
=============================================================================
