---------------------------- MODULE MCInstaller -----------------------------
EXTENDS Installer

UserTouches == {<<"headers", "auth">>, <<"exporter", "url">>}
=============================================================================
