--------------------------- MODULE MCAsyncBoundary ---------------------------
EXTENDS AsyncBoundary

==============================================================================
