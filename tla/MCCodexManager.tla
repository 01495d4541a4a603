--------------------------- MODULE MCCodexManager ---------------------------
\* The Codex credential managers on two accounts.
EXTENDS CodexManager

AllEvents == {"link", "disk", "quit", "crash", "cli", "refresh", "relogin", "lapse",
              "toggle", "auto", "select", "pin", "other", "expire", "idle",
              "keyring", "login"}
=============================================================================
